---- MODULE Spec2Model ----
(***************************************************************************)
(* NFLv2: the Elo engine (src/README.md, elo.js), the efficiency engine    *)
(* (src/src/models/efficiency.js), the combiner (src/unnamed/part_000,     *)
(* predictor.js) and the generate-predictions / check-results workflows    *)
(* (src/src/workflows) over the JSON files they persist.                   *)
(*                                                                         *)
(* Numbers.  JavaScript numbers are modelled in fixed point:               *)
(*   - an Elo rating is an integer count of 1/Unit Elo points;             *)
(*   - a probability is an integer count of 1/ProbScale;                   *)
(*   - an efficiency score before rounding is in hundredths of a point.    *)
(* log and pow are tabulated (LnMilli, WinProbTable).  NaN (and a missing  *)
(* numeric field, which every use in the code turns into NaN or treats as  *)
(* falsy, like NaN) is the one value NaN, handled by the J* operators.     *)
(***************************************************************************)
EXTENDS Integers, Sequences, FiniteSets, TLC

(***************************************************************************)
(* Bounds of the model.                                                    *)
(***************************************************************************)
NumTeams == 3        \* registry teams 1..NumTeams (NFL_TEAMS has 32)
NumGames == 2        \* games of the schedule
MaxScore == 2        \* actual final scores are drawn from 0..MaxScore
MaxUpdates == 2      \* updateRatings / initializeRatings calls per engine run
MaxGenerate == 2     \* generate-predictions runs per behaviour
MaxTime == 7         \* the clock runs from 0 to MaxTime hours
NumUrls == 12        \* URLs handed to one parallelFetch call

(***************************************************************************)
(* Program constants (src/src/core/constants.js, MODEL_CONSTANTS and       *)
(* UPDATE_CONFIG).  HOME_FIELD_ADVANTAGE is 2.5: kept in tenths.           *)
(***************************************************************************)
HOME_FIELD_ADVANTAGE_TENTHS == 25
MATCHUP_WEIGHT_HUNDREDTHS == 15
DEFAULT_THIRD_DOWN_PCT == 40
DEFAULT_RED_ZONE_PCT == 50
ELO_K_FACTOR == 20
ELO_REGRESSION_DENOM == 3
ELO_BASE_RATING == 1500
ELO_MOV_MULTIPLIER == 1
CONFIDENCE_HIGH_THRESHOLD == 100
CONFIDENCE_MEDIUM_THRESHOLD == 50
RESULT_CHECK_HOURS == 4

Unit == 6 * 100                 \* rating resolution: 1/600 Elo point
ProbScale == 100 * 1000         \* probability resolution
TableStep == 50 * Unit          \* WinProbTable is tabulated every 50 Elo

NFL_TEAMS == 1 .. NumTeams
UnknownTeam == 0                \* a name that is not in the registry
TeamNames == NFL_TEAMS \cup {UnknownTeam}

(***************************************************************************)
(* JavaScript number helpers.                                              *)
(***************************************************************************)
NaN == 0 - 1000000000

IsNaN(x) == x = NaN

Falsy(x) == IsNaN(x) \/ x = 0                 \* !x for a number or undefined

JAdd(a, b) == IF IsNaN(a) \/ IsNaN(b) THEN NaN ELSE a + b

JSub(a, b) == IF IsNaN(a) \/ IsNaN(b) THEN NaN ELSE a - b

JMul(a, k) == IF IsNaN(a) THEN NaN ELSE a * k

JGt(a, b) == ~IsNaN(a) /\ ~IsNaN(b) /\ a > b   \* a > b, false on NaN

JGe(a, b) == ~IsNaN(a) /\ ~IsNaN(b) /\ a >= b

JAbs(a) == IF IsNaN(a) THEN NaN ELSE IF a < 0 THEN 0 - a ELSE a

JMax0(a) == IF IsNaN(a) THEN NaN ELSE IF a < 0 THEN 0 ELSE a   \* Math.max(0, a)

JMin(a, b) == IF a < b THEN a ELSE b

JMaxOf(a, b) == IF a > b THEN a ELSE b

Abs(a) == IF a < 0 THEN 0 - a ELSE a

\* Math.round of n/d (d > 0): floor(n/d + 1/2), halves go up
RoundDiv(n, d) == IF IsNaN(n) THEN NaN ELSE (2 * n + d) \div (2 * d)

(***************************************************************************)
(* Strings are sequences of one-character strings, so that the template    *)
(* literal `${h}-${a}` and .split('-').map(Number) are real conversions.   *)
(***************************************************************************)
DigitChar == <<"0", "1", "2", "3", "4", "5", "6", "7", "8", "9">>

RECURSIVE NatStr(_)
NatStr(n) ==
  IF n < 10 THEN <<DigitChar[n + 1]>>
  ELSE NatStr(n \div 10) \o <<DigitChar[(n % 10) + 1]>>

\* String(x) of a number
NumStr(x) ==
  IF IsNaN(x) THEN <<"N", "a", "N">>
  ELSE IF x < 0 THEN <<"-">> \o NatStr(0 - x)
  ELSE NatStr(x)

\* `${a}-${b}`
ScoreStr(a, b) == NumStr(a) \o <<"-">> \o NumStr(b)

\* s.split('-'): the pieces between the dashes
RECURSIVE SplitDash(_, _, _)
SplitDash(s, i, cur) ==
  IF i > Len(s) THEN <<cur>>
  ELSE IF s[i] = "-" THEN <<cur>> \o SplitDash(s, i + 1, <<>>)
  ELSE SplitDash(s, i + 1, Append(cur, s[i]))

DigitVal(c) == CHOOSE d \in 0 .. 9 : DigitChar[d + 1] = c

IsDigit(c) == \E d \in 0 .. 9 : DigitChar[d + 1] = c

RECURSIVE DigitsVal(_, _)
DigitsVal(s, acc) ==
  IF s = <<>> THEN acc ELSE DigitsVal(Tail(s), 10 * acc + DigitVal(Head(s)))

\* Number(s): "" is 0, a run of digits is its value, anything else is NaN
ToNumber(s) ==
  IF s = <<>> THEN 0
  ELSE IF \A i \in 1 .. Len(s) : IsDigit(s[i]) THEN DigitsVal(s, 0)
  ELSE NaN

\* const [x, y] = s.split('-').map(Number): a missing piece is undefined
ParseScore(s) ==
  LET parts == SplitDash(s, 1, <<>>)
  IN  << ToNumber(parts[1]),
         IF Len(parts) >= 2 THEN ToNumber(parts[2]) ELSE NaN >>

(***************************************************************************)
(* Elo engine (src/README.md lines 180-362, elo.js).                       *)
(* A rating table is a function from a set of team names to ratings.       *)
(***************************************************************************)
\* ratings[team], undefined (NaN) when the table has no such key
Lookup(ratings, team) == IF team \in DOMAIN ratings THEN ratings[team] ELSE NaN

\* Math.log(m + 1) * 1000, m = 0 .. 63
LnMilli ==
  << 0, 693, 1099, 1386, 1609, 1792, 1946, 2079, 2197, 2303, 2398, 2485,
     2565, 2639, 2708, 2773, 2833, 2890, 2944, 2996, 3045, 3091, 3135, 3178,
     3219, 3258, 3296, 3332, 3367, 3401, 3434, 3466, 3497, 3526, 3555, 3584,
     3611, 3638, 3664, 3689, 3714, 3738, 3761, 3784, 3807, 3829, 3850, 3871,
     3892, 3912, 3932, 3951, 3970, 3989, 4007, 4025, 4043, 4060, 4078, 4094,
     4111, 4127, 4143, 4159 >>

\* 1 / (1 + 10^(-d/400)) * ProbScale at d = 0, 50, 100, ... Elo
WinProbTable ==
  << 50000, 57146, 64006, 70339, 75975, 80832, 84902, 88234, 90909, 93024,
     94676, 95954, 96935, 97684, 98253, 98684, 99010, 99256, 99441, 99580,
     99685, 99763, 99822, 99867, 99900, 99925, 99944, 99958, 99968, 99976,
     99982, 99987, 99990, 99993, 99994, 99996, 99997, 99998, 99998, 99999,
     99999 >>

\* the table at a gap d >= 0 (in 1/Unit Elo), interpolated upwards
WinProbAtGap(d) ==
  LET k == d \div TableStep
      f == d % TableStep
      n == Len(WinProbTable)
  IN  IF k + 1 >= n THEN WinProbTable[n]
      ELSE LET lo == WinProbTable[k + 1]
               hi == WinProbTable[k + 2]
           IN  lo + ((hi - lo) * f + TableStep - 1) \div TableStep

\* calculateWinProbability(ratingA, ratingB) = 1 / (1 + 10^((B - A) / 400))
calculateWinProbability(ratingA, ratingB) ==
  IF ratingA >= ratingB THEN WinProbAtGap(ratingA - ratingB)
  ELSE ProbScale - WinProbAtGap(ratingB - ratingA)

\* calculateMOVMultiplier, in thousandths
calculateMOVMultiplier(marginOfVictory, eloWinner, eloLoser) ==
  LET eloDiff == eloWinner - eloLoser
      base == LnMilli[Abs(marginOfVictory) + 1] * ELO_MOV_MULTIPLIER
      \* 2.2 / (eloDiff * 0.001 + 2.2) = 2200 / (eloDiff + 2200), in 1/6 Elo
      num == 2200 * 6
      den == (eloDiff * 6) \div Unit + 2200 * 6
  IN  IF eloDiff > 0 THEN (base * num) \div den ELSE base

\* change = kFactor * movMultiplier * (1 - expectedWin), in 1/Unit Elo
RatingChange(ratingWinner, ratingLoser, winnerScore, loserScore) ==
  LET expectedWin == calculateWinProbability(ratingWinner, ratingLoser)
      mov == Abs(winnerScore - loserScore)
      movMultiplier == calculateMOVMultiplier(mov, ratingWinner, ratingLoser)
      \* the product is divided in two stages to stay within 32 bits
      milliElo == (ELO_K_FACTOR * ((movMultiplier * (ProbScale - expectedWin)) \div 100))
                    \div (ProbScale \div 100)
  IN  (milliElo * Unit) \div 1000

\* if (!ratingWinner || !ratingLoser) return ratings
UpdateGuardFails(ratings, winner, loser) ==
  Falsy(Lookup(ratings, winner)) \/ Falsy(Lookup(ratings, loser))

\* mutant: only the winner is looked up before the table is rewritten
UpdateRatingsNoLoserGuard(ratings, winner, loser, winnerScore, loserScore) ==
  IF Falsy(Lookup(ratings, winner)) THEN ratings
  ELSE LET rl == IF loser \in DOMAIN ratings THEN ratings[loser] ELSE 0
           change == RatingChange(ratings[winner], rl, winnerScore, loserScore)
       IN  [t \in DOMAIN ratings \cup {winner, loser} |->
              IF t = loser THEN rl - change
              ELSE IF t = winner THEN ratings[winner] + change
              ELSE ratings[t]]

\* mutant: the loser gives up only half of what the winner gains
UpdateRatingsHalfLoss(ratings, winner, loser, winnerScore, loserScore) ==
  IF UpdateGuardFails(ratings, winner, loser) THEN ratings
  ELSE LET change == RatingChange(ratings[winner], ratings[loser],
                                  winnerScore, loserScore)
       IN  [t \in DOMAIN ratings |->
              IF t = loser THEN ratings[loser] - change \div 2
              ELSE IF t = winner THEN ratings[winner] + change
              ELSE ratings[t]]

\* updateRatings(ratings, winner, loser, winnerScore, loserScore):
\* newRatings[winner] is assigned first, newRatings[loser] second
updateRatings(ratings, winner, loser, winnerScore, loserScore) ==
  IF UpdateGuardFails(ratings, winner, loser) THEN ratings
  ELSE LET change == RatingChange(ratings[winner], ratings[loser],
                                  winnerScore, loserScore)
       IN  [t \in DOMAIN ratings |->
              IF t = loser THEN ratings[loser] - change
              ELSE IF t = winner THEN ratings[winner] + change
              ELSE ratings[t]]

\* initializeRatings(previousSeasonRatings): NoPrior stands for null
NoPrior == [t \in {} |-> 0]

initializeRatings(hasPrior, previousSeasonRatings) ==
  [team \in NFL_TEAMS |->
     IF hasPrior /\ ~Falsy(Lookup(previousSeasonRatings, team))
     THEN LET prevRating == previousSeasonRatings[team]
              regression == (prevRating - ELO_BASE_RATING * Unit)
                              \div ELO_REGRESSION_DENOM
          IN  ELO_BASE_RATING * Unit + regression
     ELSE ELO_BASE_RATING * Unit]

(***************************************************************************)
(* Elo predictGame (src/README.md lines 277-325).  A sub-model prediction  *)
(* is a record; isNull marks the null the function returns on failure.     *)
(***************************************************************************)
NullPrediction ==
  [isNull |-> TRUE, predictedWinner |-> UnknownTeam, predictedScore |-> <<>>,
   confidence |-> "low", homeWinProbability |-> 0, eloDifference |-> 0]

\* if/else-if ladder on the Elo difference (in 1/Unit Elo)
EloConfidence(eloDiff) ==
  IF eloDiff >= CONFIDENCE_HIGH_THRESHOLD * Unit THEN "high"
  ELSE IF eloDiff >= CONFIDENCE_MEDIUM_THRESHOLD * Unit THEN "medium"
  ELSE "low"

\* MODEL_CONSTANTS.HOME_FIELD_ADVANTAGE * 25 Elo points, in 1/Unit Elo
HomeFieldElo == (HOME_FIELD_ADVANTAGE_TENTHS * 25 * Unit) \div 10

AvgScore == 23                  \* const avgScore = 23

eloPredictGame(ratings, homeTeam, awayTeam) ==
  LET homeRating == Lookup(ratings, homeTeam)
      awayRating == Lookup(ratings, awayTeam)
  IN  IF Falsy(homeRating) \/ Falsy(awayRating) THEN NullPrediction
      ELSE
        LET adjustedHomeRating == homeRating + HomeFieldElo
            homeWinProb == calculateWinProbability(adjustedHomeRating, awayRating)
            eloDiff == Abs(adjustedHomeRating - awayRating)
            ratingDiff == adjustedHomeRating - awayRating
            \* scoreDiff = ratingDiff / 25; avgScore +- scoreDiff / 2
            homeScore == RoundDiv(AvgScore * 50 * Unit + ratingDiff, 50 * Unit)
            awayScore == RoundDiv(AvgScore * 50 * Unit - ratingDiff, 50 * Unit)
        IN  [isNull |-> FALSE,
             predictedWinner |-> IF 2 * homeWinProb > ProbScale
                                 THEN homeTeam ELSE awayTeam,
             predictedScore |-> ScoreStr(JMax0(homeScore), JMax0(awayScore)),
             confidence |-> EloConfidence(eloDiff),
             homeWinProbability |-> homeWinProb,
             eloDifference |-> eloDiff]

(***************************************************************************)
(* Efficiency engine (src/src/models/efficiency.js).  A team's stats are a *)
(* record of numbers, NaN where the field is undefined; a league average   *)
(* is a record with isNull for the missing one; rankings are a record of   *)
(* two rank tables, isUndefined for a missing rankings object.             *)
(***************************************************************************)
NoStats ==
  [games |-> NaN, avgPointsFor |-> NaN, avgPointsAgainst |-> NaN,
   thirdDownPct |-> NaN, redZonePct |-> NaN]

\* { ...teamStats[team], teamName: team }: a missing entry spreads to nothing
SpreadStats(teamStats, team) ==
  IF team \in DOMAIN teamStats THEN teamStats[team] ELSE NoStats

\* x || dflt
OrDefault(x, dflt) == IF Falsy(x) THEN dflt ELSE x

\* calculateMatchupAdvantage, in hundredths of a point
calculateMatchupAdvantage(teamName, opponentName, rankings) ==
  LET rushOffenseRank == OrDefault(Lookup(rankings.rushOffense, teamName), 16)
      oppPassDefenseRank == OrDefault(Lookup(rankings.passDefense, opponentName), 16)
  IN  (oppPassDefenseRank - rushOffenseRank) * MATCHUP_WEIGHT_HUNDREDTHS

\* calculateSituationalAdjustment, in hundredths of a point
calculateSituationalAdjustment(teamStats, opponentStats) ==
  LET teamThirdDown == OrDefault(teamStats.thirdDownPct, DEFAULT_THIRD_DOWN_PCT)
      oppThirdDown == OrDefault(opponentStats.thirdDownPct, DEFAULT_THIRD_DOWN_PCT)
      teamRedZone == OrDefault(teamStats.redZonePct, DEFAULT_RED_ZONE_PCT)
      oppRedZone == OrDefault(opponentStats.redZonePct, DEFAULT_RED_ZONE_PCT)
  IN  (teamThirdDown - oppThirdDown) * 5 + (teamRedZone - oppRedZone) * 3

\* if scoreDiff >= 10 high, else if >= 6 medium, else low (NaN is neither)
EfficiencyConfidence(scoreDiff) ==
  IF JGe(scoreDiff, 10) THEN "high"
  ELSE IF JGe(scoreDiff, 6) THEN "medium"
  ELSE "low"

\* efficiency.predictGame; the caller has checked that rankings is an object
efficiencyPredictGame(homeName, homeTeamStats, awayName, awayTeamStats, leagueAverage, rankings) ==
  IF leagueAverage.isNull THEN NullPrediction
  ELSE
    LET homeMatchup == calculateMatchupAdvantage(homeName, awayName, rankings)
        awayMatchup == calculateMatchupAdvantage(awayName, homeName, rankings)
        homeSituational == calculateSituationalAdjustment(homeTeamStats, awayTeamStats)
        awaySituational == calculateSituationalAdjustment(awayTeamStats, homeTeamStats)
        base == OrDefault(leagueAverage.avgPointsFor, 23) * 100
        homeOff == JMul(JSub(homeTeamStats.avgPointsFor, leagueAverage.avgPointsFor), 50)
        awayOff == JMul(JSub(awayTeamStats.avgPointsFor, leagueAverage.avgPointsFor), 50)
        homeDef == JMul(JSub(awayTeamStats.avgPointsAgainst, leagueAverage.avgPointsAgainst), 30)
        awayDef == JMul(JSub(homeTeamStats.avgPointsAgainst, leagueAverage.avgPointsAgainst), 30)
        homeRaw == JAdd(JAdd(JAdd(JSub(JAdd(base, homeOff), homeDef),
                                  HOME_FIELD_ADVANTAGE_TENTHS * 10),
                             homeMatchup), homeSituational)
        awayRaw == JAdd(JAdd(JSub(JAdd(base, awayOff), awayDef),
                             awayMatchup), awaySituational)
        homeScore == RoundDiv(JMax0(homeRaw), 100)
        awayScore == RoundDiv(JMax0(awayRaw), 100)
        scoreDiff == JAbs(JSub(homeScore, awayScore))
    IN  [isNull |-> FALSE,
         predictedWinner |-> IF JGt(homeScore, awayScore) THEN homeName ELSE awayName,
         predictedScore |-> ScoreStr(homeScore, awayScore),
         confidence |-> EfficiencyConfidence(scoreDiff),
         homeWinProbability |-> 0]

(***************************************************************************)
(* Combiner (src/unnamed/part_000, predictor.js).                          *)
(* A game is a record; isNull marks a null or undefined list entry.        *)
(* A context is [eloRatings, hasTeamStats, teamStats, leagueAverage,       *)
(* rankings]: hasTeamStats = FALSE is a context without teamStats, and     *)
(* rankings.isUndefined one without rankings.                              *)
(***************************************************************************)
NullGame == [isNull |-> TRUE, id |-> 0, date |-> 0,
             homeTeam |-> UnknownTeam, awayTeam |-> UnknownTeam]

ConfidenceLevel(c) == IF c = "high" THEN 3 ELSE IF c = "medium" THEN 2 ELSE 1

NoRecord ==
  [id |-> 0, gameDate |-> 0, homeTeam |-> UnknownTeam, awayTeam |-> UnknownTeam,
   predictedWinner |-> UnknownTeam, predictedScore |-> <<>>, spread |-> 0,
   confidence |-> "low", checked |-> FALSE,
   eloWinner |-> UnknownTeam, eloScore |-> <<>>, eloConfidence |-> "low",
   effWinner |-> UnknownTeam, effScore |-> <<>>, effConfidence |-> "low",
   correct |-> FALSE, actualWinner |-> UnknownTeam, actualScore |-> <<>>,
   scoreError |-> 0]

\* the statements of predict that throw a TypeError: game.homeTeam of a null
\* game, teamStats[homeTeam] of an undefined teamStats, rankings.rushOffense
\* of an undefined rankings (reached only past the leagueAverage check)
PredictThrows(game, context) ==
  \/ game.isNull
  \/ ~context.hasTeamStats
  \/ (~context.leagueAverage.isNull /\ context.rankings.isUndefined)

\* Math.round(elo * 0.6 + eff * 0.4)
WeightedScore(eloScore, effScore) ==
  RoundDiv(JAdd(JMul(eloScore, 6), JMul(effScore, 4)), 10)

\* mutant: the surer of the two sub-models decides
FinalConfidenceMax(eloConfidence, effConfidence) ==
  LET finalConfLevel == JMaxOf(ConfidenceLevel(eloConfidence),
                               ConfidenceLevel(effConfidence))
  IN  IF finalConfLevel = 3 THEN "high"
      ELSE IF finalConfLevel = 2 THEN "medium"
      ELSE "low"

\* Math.min of the two levels, mapped back to a label
FinalConfidence(eloConfidence, effConfidence) ==
  LET finalConfLevel == JMin(ConfidenceLevel(eloConfidence),
                             ConfidenceLevel(effConfidence))
  IN  IF finalConfLevel = 3 THEN "high"
      ELSE IF finalConfLevel = 2 THEN "medium"
      ELSE "low"

\* mutant: >= in place of >, so a combined tie goes to the home team
FinalWinnerGe(finalHomeScore, finalAwayScore, homeTeam, awayTeam) ==
  IF JGe(finalHomeScore, finalAwayScore) THEN homeTeam ELSE awayTeam

\* finalHomeScore > finalAwayScore ? homeTeam : awayTeam
FinalWinner(finalHomeScore, finalAwayScore, homeTeam, awayTeam) ==
  IF JGt(finalHomeScore, finalAwayScore) THEN homeTeam ELSE awayTeam

\* predict(game, context): kind is "threw", "null" or "prediction"
predict(game, context) ==
  IF PredictThrows(game, context) THEN [kind |-> "threw", rec |-> NoRecord]
  ELSE
    LET homeTeam == game.homeTeam
        awayTeam == game.awayTeam
        eloPrediction == eloPredictGame(context.eloRatings, homeTeam, awayTeam)
        homeStats == SpreadStats(context.teamStats, homeTeam)
        awayStats == SpreadStats(context.teamStats, awayTeam)
        efficiencyPrediction ==
          efficiencyPredictGame(homeTeam, homeStats, awayTeam, awayStats,
                                context.leagueAverage, context.rankings)
    IN  IF eloPrediction.isNull \/ efficiencyPrediction.isNull
        THEN [kind |-> "null", rec |-> NoRecord]
        ELSE
          LET elo == ParseScore(eloPrediction.predictedScore)
              eff == ParseScore(efficiencyPrediction.predictedScore)
              finalHomeScore == WeightedScore(elo[1], eff[1])
              finalAwayScore == WeightedScore(elo[2], eff[2])
          IN  [kind |-> "prediction",
               rec |->
                 [id |-> game.id, gameDate |-> game.date,
                  homeTeam |-> homeTeam, awayTeam |-> awayTeam,
                  predictedWinner |->
                    FinalWinner(finalHomeScore, finalAwayScore, homeTeam, awayTeam),
                  predictedScore |-> ScoreStr(finalHomeScore, finalAwayScore),
                  spread |-> JSub(finalHomeScore, finalAwayScore),
                  confidence |-> FinalConfidence(eloPrediction.confidence,
                                                 efficiencyPrediction.confidence),
                  checked |-> FALSE,
                  eloWinner |-> eloPrediction.predictedWinner,
                  eloScore |-> eloPrediction.predictedScore,
                  eloConfidence |-> eloPrediction.confidence,
                  effWinner |-> efficiencyPrediction.predictedWinner,
                  effScore |-> efficiencyPrediction.predictedScore,
                  effConfidence |-> efficiencyPrediction.confidence,
                  correct |-> FALSE, actualWinner |-> UnknownTeam,
                  actualScore |-> <<>>, scoreError |-> 0]]

\* predictGames(games, context): the loop from entry i on, predictions so far
\* in acc.  The catch block reads game.homeTeam for its log line, which
\* throws again, outside any try, when the entry is null.
RECURSIVE PredictLoop(_, _, _, _)
PredictLoop(games, context, i, acc) ==
  IF i > Len(games) THEN [aborted |-> FALSE, predictions |-> acc]
  ELSE
    LET r == predict(games[i], context)
    IN  IF r.kind = "prediction"
        THEN PredictLoop(games, context, i + 1, Append(acc, r.rec))
        ELSE IF r.kind = "threw" /\ games[i].isNull
        THEN [aborted |-> TRUE, predictions |-> acc]
        ELSE PredictLoop(games, context, i + 1, acc)

predictGames(games, context) == PredictLoop(games, context, 1, <<>>)

(***************************************************************************)
(* State.                                                                  *)
(*   Engine runs (SpecElo): table is the rating table threaded through the *)
(*   calls, origin the table the current run of updateRatings calls began  *)
(*   with, call the last call and the table it was given.                  *)
(*   Combiner runs (SpecPredict): ctx is the context, pcall the last call  *)
(*   of predict or predictGames with its outcome.                          *)
(*   Workflow runs (Spec): now is the clock in hours; espn what the API     *)
(*   serves for each game (its state and final score); cachedData,         *)
(*   predictionsFile, resultsFile and eloFile the four JSON files;         *)
(*   crPc and checkedPredictions the position and the local list of a      *)
(*   check-results run; generateRuns counts generate-predictions runs.     *)
(*   History: contextElo is the rating table the last generate-predictions *)
(*   run predicted with, eloApplied how often each game's result reached   *)
(*   the persisted table, appliedOrder the order in which results did,     *)
(*   rechecked whether checkPrediction was ever given a checked record.    *)
(*   Function runs (SpecFunctions): fcall is the last call of one of the   *)
(*   pure functions, with its arguments and what it returned.              *)
(*   Data-manager runs (SpecFile): disk is the directory of one JSON path  *)
(*   (the names of the file and of its .tmp, and the inodes behind them),  *)
(*   wr the position of each writeJSON call, lastRead what the last        *)
(*   readJSON call found.                                                  *)
(***************************************************************************)
VARIABLES table, origin, updates, call, ctx, pcall,
          now, espn, cachedData, predictionsFile, resultsFile, eloFile,
          crPc, checkedPredictions, generateRuns,
          contextElo, eloApplied, appliedOrder, rechecked, fcall,
          disk, wr, lastRead, store, proc, requestCache, req, pf

engineVars == <<table, origin, updates, call>>
predictVars == <<ctx, pcall>>
fileVars == <<cachedData, predictionsFile, resultsFile, eloFile>>
historyVars == <<contextElo, eloApplied, appliedOrder, rechecked>>
workflowVars == <<now, espn, fileVars, crPc, checkedPredictions, generateRuns,
                  historyVars>>
diskVars == <<disk, wr, lastRead>>
txVars == <<store, proc>>
fetchVars == <<req, pf>>
netVars == <<requestCache, fetchVars>>
ioVars == <<diskVars, txVars, netVars>>
\* everything but the files of the data manager's writeJSON and readJSON
exceptDisk == <<engineVars, predictVars, workflowVars, fcall, txVars, netVars>>
vars == <<engineVars, predictVars, workflowVars, fcall, ioVars>>

(***************************************************************************)
(* Engine runs.                                                            *)
(***************************************************************************)
\* final scores handed to updateRatings: winnerScore >= loserScore
EngineScores == {<<20, 20>>, <<24, 21>>, <<30, 10>>}

\* starting tables: fresh, spread 50 Elo apart, and one with a rating of 0
EngineTables ==
  { initializeRatings(FALSE, NoPrior),
    [t \in NFL_TEAMS |-> (ELO_BASE_RATING + 50 * (t - 1)) * Unit],
    [t \in NFL_TEAMS |-> IF t = 1 THEN 0 ELSE (ELO_BASE_RATING - 40 * t) * Unit] }

NoCall == [op |-> "none", before |-> NoPrior, winner |-> UnknownTeam,
           loser |-> UnknownTeam, winnerScore |-> 0, loserScore |-> 0]

EngineIdle ==
  /\ table = NoPrior /\ origin = NoPrior /\ updates = 0 /\ call = NoCall

PredictIdle ==
  /\ ctx = <<>> /\ pcall = <<>>

WorkflowIdle ==
  /\ now = 0 /\ espn = <<>>
  /\ cachedData = <<>> /\ predictionsFile = <<>> /\ resultsFile = <<>>
  /\ eloFile = <<>>
  /\ crPc = "idle" /\ checkedPredictions = <<>> /\ generateRuns = 0
  /\ contextElo = <<>> /\ eloApplied = <<>> /\ appliedOrder = <<>>
  /\ rechecked = FALSE

\* no pure function has been called
NoFCall == [op |-> "none"]

FunctionsIdle == fcall = NoFCall

DiskIdle == disk = <<>> /\ wr = <<>> /\ lastRead = <<>>

TxIdle == store = <<>> /\ proc = <<>>

\* this.requestCache = new Map()
NetIdle == requestCache = <<>> /\ req = <<>> /\ pf = <<>>

IoIdle == DiskIdle /\ TxIdle /\ NetIdle

InitElo ==
  /\ table \in EngineTables
  /\ origin = table
  /\ updates = 0
  /\ call = NoCall
  /\ PredictIdle
  /\ WorkflowIdle
  /\ FunctionsIdle
  /\ IoIdle

UpdateRatingsCall ==
  /\ updates < MaxUpdates
  /\ \E winner \in TeamNames, loser \in TeamNames, sc \in EngineScores :
       /\ winner # loser
       /\ table' = updateRatings(table, winner, loser, sc[1], sc[2])
       /\ call' = [op |-> "update", before |-> table, winner |-> winner,
                   loser |-> loser, winnerScore |-> sc[1], loserScore |-> sc[2]]
  /\ updates' = updates + 1
  /\ UNCHANGED <<fcall, ioVars, origin, predictVars, workflowVars>>

InitializeRatingsCall ==
  /\ updates < MaxUpdates
  /\ \E hasPrior \in BOOLEAN :
       /\ table' = initializeRatings(hasPrior, table)
       /\ call' = [NoCall EXCEPT !.op = "initialize", !.before = table]
  /\ origin' = table'
  /\ updates' = updates + 1
  /\ UNCHANGED <<fcall, ioVars, predictVars, workflowVars>>

NextElo == UpdateRatingsCall \/ InitializeRatingsCall

SpecElo == InitElo /\ [][NextElo]_vars

RECURSIVE SumOver(_, _)
SumOver(f, S) ==
  IF S = {} THEN 0
  ELSE LET x == CHOOSE y \in S : TRUE IN f[x] + SumOver(f, S \ {x})

SumRatings(ratings) == SumOver(ratings, DOMAIN ratings)

\* C1: updateRatings on two distinct teams that both have a rating raises the
\* winner by exactly what it takes from the loser, and over any run of
\* updateRatings calls the sum of the table stays what it was.
C1_ZeroSum ==
  /\ SumRatings(table) = SumRatings(origin)
  /\ (call.op = "update" /\ call.winner \in DOMAIN call.before
        /\ call.loser \in DOMAIN call.before)
       => /\ DOMAIN table = DOMAIN call.before
          /\ table[call.winner] - call.before[call.winner]
               = call.before[call.loser] - table[call.loser]
          /\ \A t \in DOMAIN table \ {call.winner, call.loser} :
               table[t] = call.before[t]

\* two updateRatings calls in a row, the last one moving ratings
C1_Witness ==
  /\ call.op = "update" /\ updates >= 2
  /\ call.winner \in DOMAIN call.before /\ call.loser \in DOMAIN call.before
  /\ table[call.winner] > call.before[call.winner]
  /\ table # origin

\* C8: updateRatings with a winner or a loser that has no entry in the table
\* returns the table it was given.
C8_UnknownTeamUnchanged ==
  (call.op = "update"
     /\ (call.winner \notin DOMAIN call.before \/ call.loser \notin DOMAIN call.before))
    => table = call.before

\* a call whose loser is unknown while its winner has a rating
C8_Witness ==
  /\ call.op = "update"
  /\ call.loser \notin DOMAIN call.before
  /\ call.winner \in DOMAIN call.before
  /\ call.before[call.winner] > 0

\* C13: an updateRatings call on two distinct teams that both have a
\* (non-zero) rating in the table, for any final scores the workflows pass
\* (equal scores included), strictly raises the winner's rating and strictly
\* lowers the loser's.
C13_WinnerUpLoserDown ==
  (/\ call.op = "update"
   /\ call.winner \in DOMAIN call.before /\ call.loser \in DOMAIN call.before
   /\ call.before[call.winner] > 0 /\ call.before[call.loser] > 0)
    => /\ table[call.winner] > call.before[call.winner]
       /\ table[call.loser] < call.before[call.loser]

(***************************************************************************)
(* Combiner runs.  A run draws a context and makes one call, of predict on *)
(* a game or of predictGames on a list of games.                           *)
(***************************************************************************)
NumWriters == 2      \* writeJSON calls on the path
NumChunks == 2       \* writes fs.writeFile needs for one JSON string
MaxListLen == 2      \* longest game list handed to predictGames

AverageStats == [games |-> 4, avgPointsFor |-> 23, avgPointsAgainst |-> 23,
                 thirdDownPct |-> 40, redZonePct |-> 50]

StrongStats == [games |-> 4, avgPointsFor |-> 37, avgPointsAgainst |-> 14,
                thirdDownPct |-> 48, redZonePct |-> 0]

WeakStats == [games |-> 4, avgPointsFor |-> 22, avgPointsAgainst |-> 19,
              thirdDownPct |-> 32, redZonePct |-> 50]

\* a team's share of a context: its Elo rating and its season aggregate,
\* either of which may be missing
TeamProfiles ==
  { [hasRating |-> TRUE, rating |-> ELO_BASE_RATING * Unit,
     hasStats |-> TRUE, stats |-> AverageStats],
    [hasRating |-> TRUE, rating |-> (ELO_BASE_RATING + 120) * Unit,
     hasStats |-> TRUE, stats |-> StrongStats],
    [hasRating |-> TRUE, rating |-> (ELO_BASE_RATING - 60) * Unit,
     hasStats |-> TRUE, stats |-> WeakStats],
    [hasRating |-> FALSE, rating |-> 0,
     hasStats |-> TRUE, stats |-> AverageStats],
    [hasRating |-> TRUE, rating |-> ELO_BASE_RATING * Unit,
     hasStats |-> FALSE, stats |-> NoStats] }

NullLeagueAverage == [isNull |-> TRUE, avgPointsFor |-> NaN, avgPointsAgainst |-> NaN]

\* calculateLeagueAverages' fallback values
DefaultLeagueAverage == [isNull |-> FALSE, avgPointsFor |-> 23, avgPointsAgainst |-> 23]

UndefinedRankings == [isUndefined |-> TRUE, rushOffense |-> NoPrior, passDefense |-> NoPrior]

\* ranks by team number; rushing and pass defence in opposite orders
SomeRankings ==
  [isUndefined |-> FALSE,
   rushOffense |-> [t \in NFL_TEAMS |-> t],
   passDefense |-> [t \in NFL_TEAMS |-> NumTeams + 1 - t]]

ContextOf(profile, hasTeamStats, leagueAverage, rankings) ==
  LET rated == {t \in NFL_TEAMS : profile[t].hasRating}
      withStats == {t \in NFL_TEAMS : profile[t].hasStats}
  IN  [eloRatings |-> [t \in rated |-> profile[t].rating],
       hasTeamStats |-> hasTeamStats,
       teamStats |-> [t \in withStats |-> profile[t].stats],
       leagueAverage |-> leagueAverage,
       rankings |-> rankings]

\* the schedule: game g is played at hour g, team g at home to the next team
ScheduleGame(g) ==
  [isNull |-> FALSE, id |-> g, date |-> g,
   homeTeam |-> ((g - 1) % NumTeams) + 1,
   awayTeam |-> (g % NumTeams) + 1]

GameIds == 1 .. NumGames

\* single games handed to predict: any ordered pair of names, or null
PredictGameInputs ==
  { [isNull |-> FALSE, id |-> 1, date |-> 1, homeTeam |-> p[1], awayTeam |-> p[2]] :
      p \in {q \in TeamNames \X TeamNames : q[1] # q[2]} } \cup {NullGame}

\* list entries handed to predictGames: the schedule's games, or null
ListEntries == {ScheduleGame(g) : g \in GameIds} \cup {NullGame}

GameLists == UNION {[1 .. n -> ListEntries] : n \in 0 .. MaxListLen}

NoGames == <<>>

NoPCall == [op |-> "none", game |-> NullGame, games |-> NoGames,
            kind |-> "none", rec |-> NoRecord,
            aborted |-> FALSE, predictions |-> NoGames]

InitPredict ==
  /\ \E profile \in [NFL_TEAMS -> TeamProfiles], hasTeamStats \in BOOLEAN,
        leagueAverage \in {NullLeagueAverage, DefaultLeagueAverage},
        rankings \in {UndefinedRankings, SomeRankings} :
       ctx = ContextOf(profile, hasTeamStats, leagueAverage, rankings)
  /\ pcall = NoPCall
  /\ EngineIdle
  /\ WorkflowIdle
  /\ FunctionsIdle
  /\ IoIdle

PredictCall ==
  /\ pcall.op = "none"
  /\ \E game \in PredictGameInputs :
       LET r == predict(game, ctx)
       IN  pcall' = [NoPCall EXCEPT !.op = "predict", !.game = game,
                                    !.kind = r.kind, !.rec = r.rec]
  /\ UNCHANGED <<fcall, ioVars, ctx, engineVars, workflowVars>>

PredictGamesCall ==
  /\ pcall.op = "none"
  /\ \E games \in GameLists :
       LET r == predictGames(games, ctx)
       IN  pcall' = [NoPCall EXCEPT !.op = "predictGames", !.games = games,
                                    !.aborted = r.aborted,
                                    !.predictions = r.predictions]
  /\ UNCHANGED <<fcall, ioVars, ctx, engineVars, workflowVars>>

NextPredict == PredictCall \/ PredictGamesCall

SpecPredict == InitPredict /\ [][NextPredict]_vars

(***************************************************************************)
(* Combiner: checkPrediction (src/unnamed/part_000 lines 112-131).         *)
(* An actual result is [homeTeam, awayTeam, homeScore, awayScore].         *)
(***************************************************************************)
checkPrediction(prediction, actualResult) ==
  LET actualWinner == IF actualResult.homeScore > actualResult.awayScore
                      THEN actualResult.homeTeam ELSE actualResult.awayTeam
      pred == ParseScore(prediction.predictedScore)
      scoreError == JAdd(JAbs(JSub(pred[1], actualResult.homeScore)),
                         JAbs(JSub(pred[2], actualResult.awayScore)))
  IN  [prediction EXCEPT
         !.checked = TRUE,
         !.correct = (prediction.predictedWinner = actualWinner),
         !.actualWinner = actualWinner,
         !.actualScore = ScoreStr(actualResult.homeScore, actualResult.awayScore),
         !.scoreError = scoreError]

(***************************************************************************)
(* calculateAccuracy (src/unnamed/part_000 lines 136-165) and the result   *)
(* records of the backtest (src/unnamed/part_001 lines 113-142).  A field  *)
(* a record does not have reads as 0 (scoreError) or FALSE (correct).      *)
(***************************************************************************)
\* (num / den).toFixed(1) for num >= 0 < den: one decimal, rounded
toFixed1(num, den) ==
  LET tenths == RoundDiv(10 * num, den)
  IN  NatStr(tenths \div 10) \o <<".">> \o <<DigitChar[(tenths % 10) + 1]>>

\* predictions.reduce((sum, p) => sum + (p.scoreError || 0), 0)
RECURSIVE TotalScoreError(_)
TotalScoreError(predictions) ==
  IF predictions = <<>> THEN 0
  ELSE LET p == predictions[Len(predictions)]
       IN  TotalScoreError(SubSeq(predictions, 1, Len(predictions) - 1))
             + (IF Falsy(p.scoreError) THEN 0 ELSE p.scoreError)

calculateAccuracy(predictions) ==
  LET total == Len(predictions)
      correct == Cardinality({i \in DOMAIN predictions : predictions[i].correct})
      totalScoreError == TotalScoreError(predictions)
  IN  [total |-> total,
       correct |-> correct,
       incorrect |-> total - correct,
       accuracy |-> IF total > 0 THEN toFixed1(correct * 100, total)
                    ELSE toFixed1(0, 1),
       byConfidence |->
         [level \in {"high", "medium", "low"} |->
            LET levelPreds == {i \in DOMAIN predictions :
                                 predictions[i].confidence = level}
                levelCorrect == Cardinality({i \in levelPreds : predictions[i].correct})
                \* the percentage is kept unformatted: here in hundredths
            IN  [total |-> Cardinality(levelPreds),
                 correct |-> levelCorrect,
                 accuracy |-> IF Cardinality(levelPreds) > 0
                              THEN RoundDiv(levelCorrect * 10000, Cardinality(levelPreds))
                              ELSE 0]],
       avgScoreError |-> IF total > 0 THEN toFixed1(totalScoreError, total)
                         ELSE toFixed1(0, 1)]

\* the result record the backtest builds for a prediction and its game:
\* { ...pred, week, correct, actualWinner, actualScore, checked: true }
BacktestResult(pred, game) ==
  LET actualWinner == IF game.homeScore > game.awayScore
                      THEN game.homeTeam ELSE game.awayTeam
  IN  [pred EXCEPT !.correct = (pred.predictedWinner = actualWinner),
                   !.actualWinner = actualWinner,
                   !.actualScore = ScoreStr(game.homeScore, game.awayScore),
                   !.checked = TRUE]

(***************************************************************************)
(* calculateLeagueAverages (src/src/models/efficiency.js lines 150-190),   *)
(* on the two averages the predictor reads.  The aggregates of the model   *)
(* are chosen so that the division is exact.                               *)
(***************************************************************************)
RECURSIVE SumField(_, _, _)
SumField(teamAggregates, S, pointsFor) ==
  IF S = {} THEN 0
  ELSE LET t == CHOOSE x \in S : TRUE
       IN  (IF pointsFor THEN teamAggregates[t].avgPointsFor
            ELSE teamAggregates[t].avgPointsAgainst)
             + SumField(teamAggregates, S \ {t}, pointsFor)

calculateLeagueAverages(teamAggregates) ==
  LET teamsWithGames == {t \in DOMAIN teamAggregates : JGt(teamAggregates[t].games, 0)}
      count == Cardinality(teamsWithGames)
  IN  IF count = 0 THEN DefaultLeagueAverage
      ELSE [isNull |-> FALSE,
            avgPointsFor |-> SumField(teamAggregates, teamsWithGames, TRUE) \div count,
            avgPointsAgainst |-> SumField(teamAggregates, teamsWithGames, FALSE) \div count]

\* Array.prototype.filter
RECURSIVE FilterSeq(_, _)
\* the entries of s, in order, whose index is in keep
FilterSeq(s, keep) ==
  IF s = <<>> THEN <<>>
  ELSE LET n == Len(s)
           front == FilterSeq(SubSeq(s, 1, n - 1), keep)
       IN  IF n \in keep THEN Append(front, s[n]) ELSE front

(***************************************************************************)
(* aggregateStats and calculateRankings (src/src/utils/stats-parser.js     *)
(* lines 144-292).  A game record is [teams, stats, hasScores, scores]:    *)
(* teams is Object.keys(game.stats) in key order, stats and scores are     *)
(* functions of the team names.  Sums are whole numbers; an average is     *)
(* kept in hundredths; a field that is not set reads NaN.                  *)
(***************************************************************************)
\* teamAggregates[teamName] = { games: 0, ... } for every registry team
InitialAggregates ==
  [teamName \in NFL_TEAMS |->
     [games |-> 0, passingYards |-> 0, rushingYards |-> 0, totalYards |-> 0,
      turnovers |-> 0, thirdDownAttempts |-> 0, thirdDownConversions |-> 0,
      redZoneAttempts |-> 0, redZoneScores |-> 0, possessionTime |-> 0,
      sacks |-> 0, pointsFor |-> 0, pointsAgainst |-> 0, wins |-> 0, losses |-> 0]]

\* teams.find(t => t !== teamName), UnknownTeam - 1 standing for undefined
NoOpponent == UnknownTeam - 1

FindOpponent(teams, teamName) ==
  LET others == {i \in DOMAIN teams : teams[i] # teamName}
  IN  IF others = {} THEN NoOpponent
      ELSE teams[CHOOSE i \in others : \A j \in others : i <= j]

\* the body of teams.forEach for one team of one game
AggregateTeam(teamAggregates, game, teamName) ==
  IF teamName \notin DOMAIN teamAggregates THEN teamAggregates
  ELSE
    LET stats == game.stats[teamName]
        agg == teamAggregates[teamName]
        opponent == FindOpponent(game.teams, teamName)
        scored == game.hasScores
        versus == scored /\ opponent # NoOpponent
        mine == IF scored THEN game.scores[teamName] ELSE 0
        theirs == IF versus THEN game.scores[opponent] ELSE 0
    IN  [teamAggregates EXCEPT ![teamName] =
          [agg EXCEPT
             !.games = @ + 1,
             !.passingYards = @ + stats.passingYards,
             !.rushingYards = @ + stats.rushingYards,
             !.totalYards = @ + stats.totalYards,
             !.turnovers = @ + stats.turnovers,
             !.sacks = @ + stats.sacks,
             !.possessionTime = @ + stats.possessionTime,
             !.thirdDownConversions = @ + (IF stats.thirdDownEff.isNull THEN 0
                                           ELSE stats.thirdDownEff.made),
             !.thirdDownAttempts = @ + (IF stats.thirdDownEff.isNull THEN 0
                                        ELSE stats.thirdDownEff.attempts),
             !.redZoneScores = @ + (IF stats.redZoneEff.isNull THEN 0
                                    ELSE stats.redZoneEff.made),
             !.redZoneAttempts = @ + (IF stats.redZoneEff.isNull THEN 0
                                      ELSE stats.redZoneEff.attempts),
             !.pointsFor = @ + mine,
             !.pointsAgainst = @ + theirs,
             !.wins = IF versus /\ mine > theirs THEN @ + 1 ELSE @,
             !.losses = IF versus /\ mine < theirs THEN @ + 1 ELSE @]]

\* teams.forEach over the teams of one game, in key order
RECURSIVE AggregateTeams(_, _, _)
AggregateTeams(teamAggregates, game, teams) ==
  IF teams = <<>> THEN teamAggregates
  ELSE AggregateTeams(AggregateTeam(teamAggregates, game, Head(teams)),
                      game, Tail(teams))

\* gameStats.forEach
RECURSIVE AggregateGames(_, _)
AggregateGames(teamAggregates, gameStats) ==
  IF gameStats = <<>> THEN teamAggregates
  ELSE AggregateGames(AggregateTeams(teamAggregates, Head(gameStats),
                                     Head(gameStats).teams),
                      Tail(gameStats))

\* sum / games, in hundredths
Average(sum, games) == (100 * sum) \div games

\* the averages, the percentages and the record string of every team
FinishAggregates(teamAggregates) ==
  [teamName \in DOMAIN teamAggregates |->
     LET agg == teamAggregates[teamName]
         has == agg.games > 0
     IN  [games |-> agg.games,
          passingYards |-> agg.passingYards, rushingYards |-> agg.rushingYards,
          totalYards |-> agg.totalYards, turnovers |-> agg.turnovers,
          thirdDownAttempts |-> agg.thirdDownAttempts,
          thirdDownConversions |-> agg.thirdDownConversions,
          redZoneAttempts |-> agg.redZoneAttempts,
          redZoneScores |-> agg.redZoneScores,
          possessionTime |-> agg.possessionTime, sacks |-> agg.sacks,
          pointsFor |-> agg.pointsFor, pointsAgainst |-> agg.pointsAgainst,
          wins |-> agg.wins, losses |-> agg.losses,
          avgPassingYards |-> IF has THEN Average(agg.passingYards, agg.games) ELSE NaN,
          avgRushingYards |-> IF has THEN Average(agg.rushingYards, agg.games) ELSE NaN,
          avgTotalYards |-> IF has THEN Average(agg.totalYards, agg.games) ELSE NaN,
          avgPointsFor |-> IF has THEN Average(agg.pointsFor, agg.games) ELSE NaN,
          avgPointsAgainst |-> IF has THEN Average(agg.pointsAgainst, agg.games) ELSE NaN,
          thirdDownPct |-> IF ~has THEN NaN
                           ELSE IF agg.thirdDownAttempts > 0
                           THEN Average(100 * agg.thirdDownConversions,
                                        agg.thirdDownAttempts)
                           ELSE 0,
          redZonePct |-> IF ~has THEN NaN
                         ELSE IF agg.redZoneAttempts > 0
                         THEN Average(100 * agg.redZoneScores, agg.redZoneAttempts)
                         ELSE 0,
          record |-> ScoreStr(agg.wins, agg.losses)]]

\* mutant: every game a team did not win counts as a loss
AggregateStatsNoTies(gameStats) ==
  LET sums == AggregateGames(InitialAggregates, gameStats)
  IN  FinishAggregates([t \in DOMAIN sums |->
                          [sums[t] EXCEPT !.losses = sums[t].games - sums[t].wins]])

\* mutant: the first game of the list is counted twice
AggregateStatsFirstTwice(gameStats) ==
  FinishAggregates(AggregateGames(InitialAggregates,
                     IF gameStats = <<>> THEN <<>>
                     ELSE <<Head(gameStats)>> \o gameStats))

aggregateStats(gameStats) ==
  FinishAggregates(AggregateGames(InitialAggregates, gameStats))

\* Object.keys(teamAggregates): the registry teams in key order
TeamKeys(teamAggregates) ==
  [i \in 1 .. Cardinality(DOMAIN teamAggregates) |->
     CHOOSE t \in DOMAIN teamAggregates :
       Cardinality({u \in DOMAIN teamAggregates : u < t}) = i - 1]

\* .filter(team => teamAggregates[team].games > 0)
TeamsWithGames(teamAggregates) ==
  LET teams == TeamKeys(teamAggregates)
  IN  FilterSeq(teams, {i \in DOMAIN teams : teamAggregates[teams[i]].games > 0})

\* x put into a sorted list behind every entry that does not sort after it
InsertBy(sorted, x, key) ==
  LET n == Cardinality({i \in DOMAIN sorted : key[sorted[i]] <= key[x]})
  IN  SubSeq(sorted, 1, n) \o <<x>> \o SubSeq(sorted, n + 1, Len(sorted))

\* .sort((a, b) => key[a] - key[b]): ascending in key, stable
RECURSIVE SortBy(_, _)
SortBy(s, key) ==
  IF s = <<>> THEN <<>>
  ELSE InsertBy(SortBy(SubSeq(s, 1, Len(s) - 1), key), s[Len(s)], key)

\* .reduce((acc, team, index) => { acc[team] = index + 1; ... }, {})
RankOf(sorted) ==
  [team \in {sorted[i] : i \in DOMAIN sorted} |->
     CHOOSE i \in DOMAIN sorted :
       sorted[i] = team /\ \A j \in DOMAIN sorted : sorted[j] = team => j <= i]

\* the four rankings of the teams in ranked
RankingsOf(teamAggregates, ranked) ==
  [offensive |->
     RankOf(SortBy(ranked, [t \in DOMAIN teamAggregates |->
                              0 - teamAggregates[t].avgTotalYards])),
   defensive |->
     RankOf(SortBy(ranked, [t \in DOMAIN teamAggregates |->
                              teamAggregates[t].avgPointsAgainst])),
   rushOffense |->
     RankOf(SortBy(ranked, [t \in DOMAIN teamAggregates |->
                              0 - teamAggregates[t].avgRushingYards])),
   passDefense |->
     RankOf(SortBy(ranked, [t \in DOMAIN teamAggregates |->
                              teamAggregates[t].avgPassingYards]))]

\* mutant: teams without a game are ranked too
RankingsUnfiltered(teamAggregates) ==
  RankingsOf(teamAggregates, TeamKeys(teamAggregates))

calculateRankings(teamAggregates) ==
  RankingsOf(teamAggregates, TeamsWithGames(teamAggregates))

(***************************************************************************)
(* Workflows (src/src/workflows, src/unnamed/part_002) and the files they  *)
(* read and write through the data manager.  A file is a record with       *)
(* present = FALSE while it does not exist (readJSON then returns null).   *)
(* Runs follow one another: no workflow starts while check-results is      *)
(* between its steps.  The API's 'in' state is read like 'pre' by every    *)
(* workflow and is left out.                                               *)
(***************************************************************************)
\* cachedData.teamStats and cachedData.rankings, as update-data left them:
\* aggregateStats gives every registry team an entry
CachedTeamStats == [t \in NFL_TEAMS |-> AverageStats]

CachedRankings == SomeRankings

Scores == 0 .. MaxScore

NotPlayed == [state |-> "pre", homeScore |-> 0, awayScore |-> 0]

\* byConfidence and the counts of predictions.json's summary
SummaryOf(allPredictions, newPredictions, keptOld) ==
  [total |-> Len(allPredictions), new |-> Len(newPredictions),
   carried |-> Len(keptOld)]

NoSummary == [total |-> 0, new |-> 0, carried |-> 0]

Init ==
  /\ now = 0
  /\ espn = [g \in GameIds |-> NotPlayed]
  /\ cachedData = [present |-> FALSE, upcomingGames |-> NoGames]
  /\ predictionsFile = [present |-> FALSE, predictions |-> NoGames,
                        summary |-> NoSummary]
  /\ resultsFile = [present |-> FALSE, results |-> NoGames]
  /\ eloFile \in { [present |-> FALSE, ratings |-> NoPrior],
                   [present |-> TRUE, ratings |-> initializeRatings(FALSE, NoPrior)] }
  /\ crPc = "idle"
  /\ checkedPredictions = NoGames
  /\ generateRuns = 0
  /\ contextElo = [used |-> FALSE, ratings |-> NoPrior]
  /\ eloApplied = [g \in GameIds |-> 0]
  /\ appliedOrder = <<>>
  /\ rechecked = FALSE
  /\ EngineIdle
  /\ PredictIdle
  /\ FunctionsIdle
  /\ IoIdle

\* an hour passes
Tick ==
  /\ crPc = "idle"
  /\ now < MaxTime
  /\ now' = now + 1
  /\ UNCHANGED <<fcall, ioVars, espn, fileVars, crPc, checkedPredictions, generateRuns,
                 historyVars, engineVars, predictVars>>

\* a game that has kicked off ends with some final score
GameEnds ==
  /\ crPc = "idle"
  /\ \E g \in GameIds, h \in Scores, a \in Scores :
       /\ espn[g].state = "pre"
       /\ now > ScheduleGame(g).date
       /\ espn' = [espn EXCEPT ![g] = [state |-> "post", homeScore |-> h,
                                       awayScore |-> a]]
  /\ UNCHANGED <<fcall, ioVars, now, fileVars, crPc, checkedPredictions, generateRuns,
                 historyVars, engineVars, predictVars>>

\* update-data, steps 7 to 9: the games not yet final become upcomingGames,
\* in scoreboard order
UpdateData ==
  /\ crPc = "idle"
  /\ LET all == [g \in GameIds |-> ScheduleGame(g)]
         upcoming == FilterSeq(all, {g \in GameIds : espn[g].state = "pre"})
     IN  cachedData' = [present |-> TRUE, upcomingGames |-> upcoming]
  /\ UNCHANGED <<fcall, ioVars, now, espn, predictionsFile, resultsFile, eloFile, crPc,
                 checkedPredictions, generateRuns, historyVars, engineVars,
                 predictVars>>

Ids(records) == {records[i].id : i \in DOMAIN records}

\* generate-predictions step 2: the persisted table, or a fresh one
GenerateEloRatings ==
  IF eloFile.present THEN eloFile.ratings ELSE initializeRatings(FALSE, NoPrior)

\* generate-predictions step 3: the prediction context
GenerateContext ==
  [eloRatings |-> GenerateEloRatings, hasTeamStats |-> TRUE,
   teamStats |-> CachedTeamStats,
   leagueAverage |-> calculateLeagueAverages(CachedTeamStats),
   rankings |-> CachedRankings]

\* mutant: checked old records are carried over as well
MergeKeepingChecked(existing, newPredictions) ==
  LET newGameIds == Ids(newPredictions)
      keptOld == FilterSeq(existing,
                   {i \in DOMAIN existing : existing[i].id \notin newGameIds})
  IN  [present |-> TRUE, predictions |-> keptOld \o newPredictions,
       summary |-> SummaryOf(keptOld \o newPredictions, newPredictions, keptOld)]

\* generate-predictions step 5: unchecked old records of games that are not
\* predicted again are kept, everything else is replaced by the new batch
MergePredictions(existing, newPredictions) ==
  LET uncheckedOld == FilterSeq(existing,
                        {i \in DOMAIN existing : ~existing[i].checked})
      newGameIds == Ids(newPredictions)
      keptOld == FilterSeq(uncheckedOld,
                   {i \in DOMAIN uncheckedOld : uncheckedOld[i].id \notin newGameIds})
  IN  [present |-> TRUE, predictions |-> keptOld \o newPredictions,
       summary |-> SummaryOf(keptOld \o newPredictions, newPredictions, keptOld)]

\* one run of the generate-predictions workflow
GeneratePredictions ==
  /\ crPc = "idle"
  /\ generateRuns < MaxGenerate
  /\ cachedData.present
  /\ cachedData.upcomingGames # <<>>
  /\ \E batch \in {predictGames(cachedData.upcomingGames, GenerateContext)} :
       /\ ~batch.aborted
       /\ predictionsFile' =
            MergePredictions(IF predictionsFile.present
                             THEN predictionsFile.predictions ELSE NoGames,
                             batch.predictions)
  /\ contextElo' = [used |-> TRUE, ratings |-> GenerateEloRatings]
  /\ generateRuns' = generateRuns + 1
  /\ UNCHANGED <<fcall, ioVars, now, espn, cachedData, resultsFile, eloFile, crPc,
                 checkedPredictions, eloApplied, appliedOrder, rechecked,
                 engineVars, predictVars>>

\* mutant: the checked flag is not looked at
ToCheckIgnoringChecked(predictions, time) ==
  FilterSeq(predictions,
            {i \in DOMAIN predictions :
               time - predictions[i].gameDate >= RESULT_CHECK_HOURS})

\* mutant: the age of the game is not looked at
ToCheckAnyAge(predictions, time) ==
  FilterSeq(predictions, {i \in DOMAIN predictions : ~predictions[i].checked})

\* check-results step 2: the unchecked predictions that are old enough
ToCheck(predictions, time) ==
  FilterSeq(predictions,
            {i \in DOMAIN predictions :
               /\ ~predictions[i].checked
               /\ time - predictions[i].gameDate >= RESULT_CHECK_HOURS})

\* what the summary of a final game yields
ActualResult(prediction) ==
  [homeTeam |-> ScheduleGame(prediction.id).homeTeam,
   awayTeam |-> ScheduleGame(prediction.id).awayTeam,
   homeScore |-> espn[prediction.id].homeScore,
   awayScore |-> espn[prediction.id].awayScore]

\* check-results step 3 over toCheck: the fetch of the games in failed
\* returns null, a game that is not 'post' is skipped
RECURSIVE CheckAll(_, _)
CheckAll(toCheck, failed) ==
  IF toCheck = <<>> THEN <<>>
  ELSE LET prediction == Head(toCheck)
           rest == CheckAll(Tail(toCheck), failed)
       IN  IF prediction.id \in failed \/ espn[prediction.id].state # "post"
           THEN rest
           ELSE <<checkPrediction(prediction, ActualResult(prediction))>> \o rest

\* check-results steps 1 to 3; the run goes on only if something was checked
CR_Load ==
  /\ crPc = "idle"
  /\ predictionsFile.present
  /\ \E toCheck \in {ToCheck(predictionsFile.predictions, now)} :
       /\ toCheck # <<>>
       /\ \E failed \in SUBSET Ids(toCheck) :
            \E done \in {CheckAll(toCheck, failed)} :
              /\ done # <<>>
              /\ checkedPredictions' = done
              /\ rechecked' =
                   (rechecked \/ \E i \in DOMAIN toCheck :
                                   /\ toCheck[i].checked
                                   /\ toCheck[i].id \in Ids(done))
  /\ crPc' = "writePredictions"
  /\ UNCHANGED <<fcall, ioVars, now, espn, fileVars, generateRuns, contextElo, eloApplied,
                 appliedOrder, engineVars, predictVars>>

\* checkedPredictions.find(c => c.id === id)
FindChecked(checked, id) ==
  LET hits == {i \in DOMAIN checked : checked[i].id = id}
  IN  IF hits = {} THEN 0 ELSE CHOOSE i \in hits : \A j \in hits : i <= j

\* check-results step 4: updateJSON of predictions.json
CR_WritePredictions ==
  /\ crPc = "writePredictions"
  /\ LET data == predictionsFile.predictions
         updated == [i \in DOMAIN data |->
                       LET k == FindChecked(checkedPredictions, data[i].id)
                       IN  IF k = 0 THEN data[i] ELSE checkedPredictions[k]]
     IN  predictionsFile' = [predictionsFile EXCEPT !.predictions = updated]
  /\ crPc' = "writeResults"
  /\ UNCHANGED <<fcall, ioVars, now, espn, cachedData, resultsFile, eloFile, checkedPredictions,
                 generateRuns, historyVars, engineVars, predictVars>>

\* results.push(checked) unless an entry with its id is there already
RECURSIVE PushNew(_, _)
PushNew(results, checked) ==
  IF checked = <<>> THEN results
  ELSE PushNew(IF Head(checked).id \in Ids(results) THEN results
               ELSE Append(results, Head(checked)),
               Tail(checked))

\* check-results step 5: updateJSON of results.json
CR_WriteResults ==
  /\ crPc = "writeResults"
  /\ LET existing == IF resultsFile.present THEN resultsFile.results ELSE NoGames
     IN  resultsFile' = [present |-> TRUE,
                         results |-> PushNew(existing, checkedPredictions)]
  /\ crPc' = "updateElo"
  /\ UNCHANGED <<fcall, ioVars, now, espn, cachedData, predictionsFile, eloFile,
                 checkedPredictions, generateRuns, historyVars, engineVars,
                 predictVars>>

\* one iteration of step 6's forEach: the call of updateRatings for result
ApplyResult(eloRatings, result) ==
  LET sc == ParseScore(result.actualScore)
      homeScore == sc[1]
      awayScore == sc[2]
      winner == IF homeScore > awayScore THEN result.homeTeam ELSE result.awayTeam
      loser == IF homeScore > awayScore THEN result.awayTeam ELSE result.homeTeam
      winnerScore == JMaxOf(homeScore, awayScore)
      loserScore == JMin(homeScore, awayScore)
  IN  updateRatings(eloRatings, winner, loser, winnerScore, loserScore)

RECURSIVE ApplyAll(_, _)
ApplyAll(eloRatings, results) ==
  IF results = <<>> THEN eloRatings
  ELSE ApplyAll(ApplyResult(eloRatings, Head(results)), Tail(results))

\* the ids, in order, of the results whose teams updateRatings found in the
\* table as it stood when their turn came
RECURSIVE AppliedIds(_, _)
AppliedIds(eloRatings, results) ==
  IF results = <<>> THEN <<>>
  ELSE LET r == Head(results)
           rest == AppliedIds(ApplyResult(eloRatings, r), Tail(results))
       IN  IF UpdateGuardFails(eloRatings, r.homeTeam, r.awayTeam) THEN rest
           ELSE <<r.id>> \o rest

CountIn(seq, x) == Cardinality({i \in DOMAIN seq : seq[i] = x})

\* check-results step 6: read historical-elo.json, fold the results in, write
CR_UpdateElo ==
  /\ crPc = "updateElo"
  /\ \E eloRatings \in {IF eloFile.present THEN eloFile.ratings ELSE NoPrior} :
       \E applied \in {AppliedIds(eloRatings, checkedPredictions)} :
         /\ eloFile' = [present |-> TRUE,
                        ratings |-> ApplyAll(eloRatings, checkedPredictions)]
         /\ appliedOrder' = appliedOrder \o applied
         /\ eloApplied' = [g \in GameIds |-> eloApplied[g] + CountIn(applied, g)]
  /\ crPc' = "idle"
  /\ checkedPredictions' = NoGames
  /\ UNCHANGED <<fcall, ioVars, now, espn, cachedData, predictionsFile, resultsFile,
                 generateRuns, contextElo, rechecked, engineVars, predictVars>>

CheckResults == CR_Load \/ CR_WritePredictions \/ CR_WriteResults \/ CR_UpdateElo

Next == Tick \/ GameEnds \/ UpdateData \/ GeneratePredictions \/ CheckResults

Spec == Init /\ [][Next]_vars

(***************************************************************************)
(* Runs of check-results that fail.  Each of the three writes (updateJSON  *)
(* of predictions.json, updateJSON of results.json, writeJSON of           *)
(* historical-elo.json) may throw; the write that throws leaves its file   *)
(* as it was, the catch block of checkResults logs and rethrows, and the   *)
(* run is over.  The workflow is started again whenever it has something   *)
(* to do, and a step that stays possible is taken.                         *)
(***************************************************************************)
\* check-results lines 187-190: an awaited write throws
CR_Fails ==
  /\ crPc \in {"writePredictions", "writeResults", "updateElo"}
  /\ crPc' = "idle"
  /\ checkedPredictions' = NoGames
  /\ UNCHANGED <<fcall, ioVars, now, espn, fileVars, generateRuns, historyVars,
                 engineVars, predictVars>>

\* historical-elo.json exists and rates every registry team
InitRated == Init /\ eloFile.present

NextFailing == Next \/ CR_Fails

\* a stored prediction is old enough to be checked and its game is final
Checkable ==
  /\ predictionsFile.present
  /\ \E i \in DOMAIN ToCheck(predictionsFile.predictions, now) :
       espn[ToCheck(predictionsFile.predictions, now)[i].id].state = "post"

\* a run is started and gets a result: step 3 is left with successCount > 0
RunStarts == crPc = "idle" /\ Checkable /\ crPc' = "writePredictions"

\* a run that is between two steps takes the next one, or throws
RunGoesOn ==
  /\ crPc # "idle"
  /\ crPc' \in {"writeResults", "updateElo", "idle"}
  /\ crPc' # crPc

\* the workflow is run again while there is something to check, the summary
\* requests succeed in the end, and no run hangs
FairRuns == WF_crPc(RunStarts) /\ WF_crPc(RunGoesOn)

SpecFailing == InitRated /\ [][NextFailing]_vars /\ FairRuns

(***************************************************************************)
(* Runs in one process.  The workflows share the API client, whose         *)
(* requestCache maps a URL to the response fetched first (part_003 lines   *)
(* 56-67); a failed request caches nothing.  update-data empties the map   *)
(* at its end, check-results never does.  requestCache is kept here for    *)
(* the summary URLs, by game id.                                           *)
(***************************************************************************)
\* cachedFetch of the summary of game g: the cached response, else ESPN's
SummaryOfGame(g) == IF g \in DOMAIN requestCache THEN requestCache[g] ELSE espn[g]

\* the final score as check-results reads it from a summary
ResultFrom(prediction, summary) ==
  [homeTeam |-> ScheduleGame(prediction.id).homeTeam,
   awayTeam |-> ScheduleGame(prediction.id).awayTeam,
   homeScore |-> summary.homeScore,
   awayScore |-> summary.awayScore]

\* check-results step 3 over toCheck with the shared client: the requests of
\* the games in failed return null
RECURSIVE CheckAllCached(_, _)
CheckAllCached(toCheck, failed) ==
  IF toCheck = <<>> THEN <<>>
  ELSE LET prediction == Head(toCheck)
           rest == CheckAllCached(Tail(toCheck), failed)
       IN  IF prediction.id \in failed
              \/ SummaryOfGame(prediction.id).state # "post"
           THEN rest
           ELSE <<checkPrediction(prediction,
                    ResultFrom(prediction, SummaryOfGame(prediction.id)))>> \o rest

\* check-results steps 1 to 3 in the shared process: every response that
\* arrives is cached; without a checked prediction the run returns
CR_LoadCached ==
  /\ crPc = "idle"
  /\ predictionsFile.present
  /\ \E toCheck \in {ToCheck(predictionsFile.predictions, now)} :
       /\ toCheck # <<>>
       /\ \E failed \in SUBSET (Ids(toCheck) \ DOMAIN requestCache) :
            \E done \in {CheckAllCached(toCheck, failed)} :
              /\ requestCache' =
                   [g \in DOMAIN requestCache \cup (Ids(toCheck) \ failed) |->
                      SummaryOfGame(g)]
              /\ checkedPredictions' = done
              /\ crPc' = IF done = <<>> THEN "idle" ELSE "writePredictions"
  /\ UNCHANGED <<fcall, diskVars, txVars, fetchVars, now, espn, fileVars, generateRuns,
                 historyVars, engineVars, predictVars>>

\* update-data in the shared process: steps 7 to 9, then apiClient.clearCache()
UpdateDataClearing ==
  /\ crPc = "idle"
  /\ LET all == [g \in GameIds |-> ScheduleGame(g)]
         upcoming == FilterSeq(all, {g \in GameIds : espn[g].state = "pre"})
     IN  cachedData' = [present |-> TRUE, upcomingGames |-> upcoming]
  /\ requestCache' = <<>>
  /\ UNCHANGED <<fcall, diskVars, txVars, fetchVars, now, espn, predictionsFile, resultsFile,
                 eloFile, crPc, checkedPredictions, generateRuns, historyVars,
                 engineVars, predictVars>>

NextProcess ==
  \/ Tick
  \/ GameEnds
  \/ UpdateDataClearing
  \/ GeneratePredictions
  \/ CR_LoadCached
  \/ CR_WritePredictions
  \/ CR_WriteResults
  \/ CR_UpdateElo

\* an unchecked stored prediction is old enough and the summary the client
\* would hand out for it (cached, or fetched now) says 'post'
CheckableInProcess ==
  /\ predictionsFile.present
  /\ \E i \in DOMAIN ToCheck(predictionsFile.predictions, now) :
       SummaryOfGame(ToCheck(predictionsFile.predictions, now)[i].id).state = "post"

\* a run is started and every request it sends succeeds in the end
RunStartsInProcess ==
  crPc = "idle" /\ CheckableInProcess /\ crPc' = "writePredictions"

\* check-results is invoked again and again, its requests succeed in the
\* end, and no run hangs
FairProcess == WF_crPc(RunStartsInProcess) /\ WF_crPc(RunGoesOn)

SpecProcess == InitRated /\ [][NextProcess]_vars /\ FairProcess

(***************************************************************************)
(* Function runs: one call of a pure function on arguments drawn from      *)
(* small sets; fcall keeps the arguments and the value returned.           *)
(***************************************************************************)
\* ratings handed to the Elo predictGame, in Elo points
RatingGrid == {1400, 1450, 1500, 1540, 1600}

\* a table that rates home and away as given and everybody else at the base;
\* a name that is no registry team gets no entry
TableWith(homeTeam, homeRating, awayTeam, awayRating) ==
  [t \in NFL_TEAMS |->
     IF t = homeTeam THEN homeRating * Unit
     ELSE IF t = awayTeam THEN awayRating * Unit
     ELSE ELO_BASE_RATING * Unit]

\* predictGame(ratings, homeTeam, awayTeam) on two tables for the same teams
EloPredictGameCall ==
  /\ fcall.op = "none"
  /\ \E homeTeam \in TeamNames, awayTeam \in TeamNames,
        h1 \in RatingGrid, a1 \in RatingGrid,
        h2 \in RatingGrid, a2 \in RatingGrid :
       /\ homeTeam # awayTeam
       /\ fcall' = [op |-> "predictGame",
                    homeTeam |-> homeTeam, awayTeam |-> awayTeam,
                    ratings |-> TableWith(homeTeam, h1, awayTeam, a1),
                    result |-> eloPredictGame(TableWith(homeTeam, h1, awayTeam, a1),
                                              homeTeam, awayTeam),
                    otherRatings |-> TableWith(homeTeam, h2, awayTeam, a2),
                    otherResult |-> eloPredictGame(TableWith(homeTeam, h2, awayTeam, a2),
                                                   homeTeam, awayTeam)]
  /\ UNCHANGED <<engineVars, predictVars, workflowVars, ioVars>>

\* prior-season ratings, in Elo points, over the expected range
PriorGrid == {0, 1200, 1500, 1501, 3000}

\* prior tables: any set of teams rated, each with a rating of the grid
PriorTables ==
  UNION { [S -> {p * Unit : p \in PriorGrid}] : S \in SUBSET NFL_TEAMS }

\* initializeRatings() and initializeRatings(previousSeasonRatings)
InitializeRatingsOnPrior ==
  /\ fcall.op = "none"
  /\ \E hasPrior \in BOOLEAN, prior \in PriorTables :
       /\ (~hasPrior => prior = NoPrior)
       /\ fcall' = [op |-> "initializeRatings", hasPrior |-> hasPrior,
                    previousSeasonRatings |-> prior,
                    result |-> initializeRatings(hasPrior, prior)]
  /\ UNCHANGED <<engineVars, predictVars, workflowVars, ioVars>>

\* stored predictions of one game, team 1 at home against team 2: either
\* team predicted to win, with two predicted scores
SamplePredictions ==
  { [NoRecord EXCEPT !.id = 1, !.gameDate = 1, !.homeTeam = 1, !.awayTeam = 2,
                     !.predictedWinner = w, !.predictedScore = ScoreStr(sc[1], sc[2]),
                     !.spread = sc[1] - sc[2], !.confidence = c] :
      w \in {1, 2}, sc \in {<<24, 21>>, <<20, 23>>}, c \in {"high", "low"} }

\* final scores (home, away) of that game: a tie, a home win, an away win
SampleFinalScores == {<<20, 20>>, <<24, 21>>, <<17, 30>>}

SampleActualResult(sc) ==
  [homeTeam |-> 1, awayTeam |-> 2, homeScore |-> sc[1], awayScore |-> sc[2]]

\* checkPrediction(prediction, actualResult)
CheckPredictionCall ==
  /\ fcall.op = "none"
  /\ \E prediction \in SamplePredictions, sc \in SampleFinalScores :
       fcall' = [op |-> "checkPrediction", prediction |-> prediction,
                 actualResult |-> SampleActualResult(sc),
                 result |-> checkPrediction(prediction, SampleActualResult(sc))]
  /\ UNCHANGED <<engineVars, predictVars, workflowVars, ioVars>>

\* the games of a report: a prediction and the final score of its game
ReportedGames ==
  UNION { [1 .. n -> SamplePredictions \X SampleFinalScores] : n \in 0 .. MaxListLen }

\* the results check-results hands to calculateAccuracy (checkPrediction's
\* records) or the backtest does (its own records), game i having id i
ResultsOf(caller, games) ==
  [i \in DOMAIN games |->
     LET prediction == [games[i][1] EXCEPT !.id = i]
         actual == SampleActualResult(games[i][2])
     IN  IF caller = "checkResults" THEN checkPrediction(prediction, actual)
         ELSE BacktestResult(prediction, actual)]

\* calculateAccuracy(results) as check-results and the backtest call it
CalculateAccuracyCall ==
  /\ fcall.op = "none"
  /\ \E caller \in {"checkResults", "backtest"}, games \in ReportedGames :
       fcall' = [op |-> "calculateAccuracy", caller |-> caller,
                 results |-> ResultsOf(caller, games),
                 report |-> calculateAccuracy(ResultsOf(caller, games))]
  /\ UNCHANGED <<engineVars, predictVars, workflowVars, ioVars>>

\* what extractTeamStats yields for a team that scored points in a game
BoxStats(team, points) ==
  [passingYards |-> 180 + 10 * points, rushingYards |-> 90 + 20 * team,
   totalYards |-> 270 + 10 * points + 20 * team, turnovers |-> 1,
   thirdDownEff |-> [isNull |-> FALSE, made |-> 4, attempts |-> 10],
   redZoneEff |-> IF points = 0 THEN [isNull |-> TRUE, made |-> 0, attempts |-> 0]
                  ELSE [isNull |-> FALSE, made |-> 2, attempts |-> 3],
   possessionTime |-> 1800, sacks |-> 2]

\* the record update-data and the backtest push for a game
GameRecord(homeTeam, awayTeam, hasScores, sc) ==
  [teams |-> <<homeTeam, awayTeam>>,
   stats |-> [t \in {homeTeam, awayTeam} |->
                BoxStats(t, IF t = homeTeam THEN sc[1] ELSE sc[2])],
   hasScores |-> hasScores,
   scores |-> [t \in {homeTeam, awayTeam} |->
                 IF t = homeTeam THEN sc[1] ELSE sc[2]]]

\* games between any two names, with a final score or without scores
SampleGameRecords ==
  { GameRecord(p[1], p[2], TRUE, sc) :
      p \in {q \in TeamNames \X TeamNames : q[1] # q[2]}, sc \in SampleFinalScores }
  \cup
  { GameRecord(p[1], p[2], FALSE, <<0, 0>>) :
      p \in {q \in TeamNames \X TeamNames : q[1] # q[2]} }

GameStatsLists ==
  UNION { [1 .. n -> SampleGameRecords] : n \in 0 .. MaxListLen }

\* update-data steps 3 and 4 and generate-predictions step 3 on a list
Aggregated(gameStats) ==
  LET teamAggregates == aggregateStats(gameStats)
  IN  [teamAggregates |-> teamAggregates,
       rankings |-> calculateRankings(teamAggregates),
       leagueAverage |-> calculateLeagueAverages(teamAggregates)]

\* aggregateStats, calculateRankings and calculateLeagueAverages on a list of
\* game records and on every permutation of it
AggregateStatsCall ==
  /\ fcall.op = "none"
  /\ \E gameStats \in GameStatsLists :
       fcall' = [op |-> "aggregateStats", gameStats |-> gameStats,
                 result |-> Aggregated(gameStats),
                 ofPermutations |->
                   { Aggregated([i \in DOMAIN gameStats |-> gameStats[perm[i]]]) :
                       perm \in Permutations(DOMAIN gameStats) }]
  /\ UNCHANGED <<engineVars, predictVars, workflowVars, ioVars>>

\* season aggregates of a team that scores points a game
ScoringStats(points) == [AverageStats EXCEPT !.avgPointsFor = points]

\* points a game, around the league average of 23
ScoringGrid == {20, 23, 26}

\* the context generate-predictions builds from a rating table and the
\* season aggregates of the two teams
GridContext(homeTeam, homeRating, homePoints, awayTeam, awayRating, awayPoints) ==
  [eloRatings |-> TableWith(homeTeam, homeRating, awayTeam, awayRating),
   hasTeamStats |-> TRUE,
   teamStats |-> [t \in NFL_TEAMS |->
                    IF t = homeTeam THEN ScoringStats(homePoints)
                    ELSE IF t = awayTeam THEN ScoringStats(awayPoints)
                    ELSE AverageStats],
   leagueAverage |-> DefaultLeagueAverage,
   rankings |-> SomeRankings]

\* predict(game, context) for two registry teams, over ratings and scoring
PredictOnGrid ==
  /\ fcall.op = "none"
  /\ \E homeTeam \in NFL_TEAMS, awayTeam \in NFL_TEAMS,
        h \in RatingGrid, a \in RatingGrid,
        hp \in ScoringGrid, ap \in ScoringGrid :
       /\ homeTeam # awayTeam
       /\ \E r \in {predict([isNull |-> FALSE, id |-> 1, date |-> 1,
                              homeTeam |-> homeTeam, awayTeam |-> awayTeam],
                             GridContext(homeTeam, h, hp, awayTeam, a, ap))} :
            fcall' = [op |-> "predict", homeTeam |-> homeTeam,
                      awayTeam |-> awayTeam,
                      context |-> GridContext(homeTeam, h, hp, awayTeam, a, ap),
                      kind |-> r.kind, rec |-> r.rec]
  /\ UNCHANGED <<engineVars, predictVars, workflowVars, ioVars>>

NextFunctions ==
  \/ PredictOnGrid
  \/ EloPredictGameCall
  \/ InitializeRatingsOnPrior
  \/ CheckPredictionCall
  \/ CalculateAccuracyCall
  \/ AggregateStatsCall

InitFunctions ==
  /\ fcall = NoFCall
  /\ EngineIdle
  /\ PredictIdle
  /\ WorkflowIdle
  /\ IoIdle

SpecFunctions == InitFunctions /\ [][NextFunctions]_vars

(***************************************************************************)
(* Data manager (src/src/core/data-manager.js): writeJSON and readJSON on  *)
(* one path.  fs.writeFile opens the .tmp name (creating or truncating     *)
(* it), writes the string chunk by chunk at its own offset and closes;     *)
(* fs.rename gives the inode behind .tmp the file's name; fs.unlink takes  *)
(* the .tmp name away.  Every writeJSON call of a path uses the same .tmp  *)
(* name.  The call of writer w writes the value w; the content of a file   *)
(* is the sequence of its chunks, <<v, k>> being chunk k of value v.       *)
(***************************************************************************)
Writers == 1 .. NumWriters

Hole == <<0, 0>>                 \* bytes never written, past a truncation

\* JSON.stringify(data): the whole string of value v
Complete(v) == [k \in 1 .. NumChunks |-> <<v, k>>]

NoName == 0

InitFile ==
  /\ disk \in { [target |-> NoName, temp |-> NoName, inodes |-> <<>>],
                 [target |-> 1, temp |-> NoName, inodes |-> <<Complete(0)>>] }
  /\ wr = [w \in Writers |-> [pc |-> "idle", fd |-> NoName, next |-> 0]]
  /\ lastRead = [kind |-> "none", content |-> <<>>]
  /\ EngineIdle /\ PredictIdle /\ WorkflowIdle /\ FunctionsIdle /\ TxIdle /\ NetIdle

\* fs.writeFile(tempPath, ...), the open: flag 'w' creates or truncates
WriteFileOpen(w) ==
  /\ wr[w].pc = "idle"
  /\ IF disk.temp # NoName
     THEN /\ disk' = [disk EXCEPT !.inodes[disk.temp] = <<>>]
          /\ wr' = [wr EXCEPT ![w] = [pc |-> "writing", fd |-> disk.temp, next |-> 1]]
     ELSE /\ disk' = [disk EXCEPT !.temp = Len(disk.inodes) + 1,
                                  !.inodes = Append(disk.inodes, <<>>)]
          /\ wr' = [wr EXCEPT ![w] = [pc |-> "writing",
                                      fd |-> Len(disk.inodes) + 1, next |-> 1]]
  /\ UNCHANGED <<lastRead, exceptDisk>>

\* the content of a file after chunk c is written at offset k
WriteAt(content, k, c) ==
  [i \in 1 .. (IF Len(content) > k THEN Len(content) ELSE k) |->
     IF i = k THEN c ELSE IF i <= Len(content) THEN content[i] ELSE Hole]

\* fs.writeFile, one write of the loop; the file is closed after the last
WriteFileChunk(w) ==
  /\ wr[w].pc = "writing"
  /\ disk' = [disk EXCEPT !.inodes[wr[w].fd] =
                 WriteAt(disk.inodes[wr[w].fd], wr[w].next, <<w, wr[w].next>>)]
  /\ wr' = [wr EXCEPT ![w].next = wr[w].next + 1,
                      ![w].pc = IF wr[w].next = NumChunks THEN "rename" ELSE "writing"]
  /\ UNCHANGED <<lastRead, exceptDisk>>

\* fs.rename(tempPath, fullPath): ENOENT when the .tmp name is gone
Rename(w) ==
  /\ wr[w].pc = "rename"
  /\ IF disk.temp = NoName
     THEN /\ wr' = [wr EXCEPT ![w].pc = "catch"]
          /\ UNCHANGED disk
     ELSE /\ disk' = [disk EXCEPT !.target = disk.temp, !.temp = NoName]
          /\ wr' = [wr EXCEPT ![w].pc = "done"]
  /\ UNCHANGED <<lastRead, exceptDisk>>

\* one of the awaited fs calls rejects (ensureDir, writeFile or rename)
FsCallFails(w) ==
  /\ wr[w].pc \in {"idle", "writing", "rename"}
  /\ wr' = [wr EXCEPT ![w].pc = "catch"]
  /\ UNCHANGED <<disk, lastRead, exceptDisk>>

\* the catch block: fs.unlink(tempPath), its own error ignored, then throw
CatchUnlink(w) ==
  /\ wr[w].pc = "catch"
  /\ disk' = [disk EXCEPT !.temp = NoName]
  /\ wr' = [wr EXCEPT ![w].pc = "thrown"]
  /\ UNCHANGED <<lastRead, exceptDisk>>

writeJSON(w) ==
  \/ WriteFileOpen(w)
  \/ WriteFileChunk(w)
  \/ Rename(w)
  \/ FsCallFails(w)
  \/ CatchUnlink(w)

\* readJSON: null on ENOENT, else what the file holds at that moment
readJSON ==
  /\ lastRead' = IF disk.target = NoName
                 THEN [kind |-> "absent", content |-> <<>>]
                 ELSE [kind |-> "content", content |-> disk.inodes[disk.target]]
  /\ UNCHANGED <<disk, wr, exceptDisk>>

NextFile == (\E w \in Writers : writeJSON(w)) \/ readJSON

SpecFile == InitFile /\ [][NextFile]_vars

\* C17: under any interleaving of writeJSON and readJSON calls on one path,
\* overlapping writeJSON calls and a writeJSON that fails part-way included,
\* readJSON finds the file absent or holding the complete value of one
\* single writeJSON call, never partial or mixed content.
C17_ReadsAreWhole ==
  lastRead.kind = "content"
    => \E v \in 0 .. NumWriters : lastRead.content = Complete(v)

(***************************************************************************)
(* Data manager: updateJSON and transaction on one path (data-manager.js   *)
(* lines 98-103 and 188-220).  store holds the file, its .tmp and its      *)
(* .backup, each [present, data]; the data of the file is the list of the  *)
(* callers whose transform it went through, the transform of caller c      *)
(* appending c.  Every await of the code is a step of its own; a whole     *)
(* fs.writeFile or fs.copyFile is taken as one step.  this.locks is never  *)
(* read or written, so nothing keeps two calls apart.                      *)
(***************************************************************************)
Callers == 1 .. NumWriters

AbsentFile == [present |-> FALSE, data |-> <<>>]

FileWith(data) == [present |-> TRUE, data |-> data]

IdleCall ==
  [pc |-> "idle", kind |-> "none", existing |-> <<>>, updated |-> <<>>,
   backupPath |-> FALSE, before |-> AbsentFile]

\* the file is absent or holds {} (the empty list); no .tmp, no .backup
InitStore ==
  /\ store \in { [target |-> t, tmp |-> AbsentFile, backup |-> AbsentFile] :
                   t \in {AbsentFile, FileWith(<<>>)} }
  /\ proc = [c \in Callers |-> IdleCall]
  /\ EngineIdle /\ PredictIdle /\ WorkflowIdle /\ FunctionsIdle /\ DiskIdle /\ NetIdle

\* await this.readJSON(filePath) || defaultValue
ReadExisting(c, kind) ==
  [proc EXCEPT ![c].existing = IF store.target.present THEN store.target.data
                               ELSE <<>>,
               ![c].pc = "transform",
               ![c].kind = kind]

\* updateJSON line 99
UpdateRead(c) ==
  /\ proc[c].pc = "idle"
  /\ proc' = [ReadExisting(c, "updateJSON") EXCEPT ![c].before = store.target]
  /\ UNCHANGED <<store, engineVars, predictVars, workflowVars, fcall, diskVars, netVars>>

\* await transformFn(existing) / await modifyFn(existing)
Transform(c) ==
  /\ proc[c].pc = "transform"
  /\ proc' = [proc EXCEPT ![c].updated = Append(proc[c].existing, c),
                          ![c].pc = "writeFile"]
  /\ UNCHANGED <<store, engineVars, predictVars, workflowVars, fcall, diskVars, netVars>>

\* transformFn or modifyFn throws
TransformThrows(c) ==
  /\ proc[c].pc = "transform"
  /\ proc' = [proc EXCEPT ![c].pc = IF proc[c].kind = "transaction"
                                    THEN "rollback" ELSE "thrown"]
  /\ UNCHANGED <<store, engineVars, predictVars, workflowVars, fcall, diskVars, netVars>>

\* writeJSON line 73: fs.writeFile(tempPath, jsonString)
WriteTemp(c) ==
  /\ proc[c].pc = "writeFile"
  /\ store' = [store EXCEPT !.tmp = FileWith(proc[c].updated)]
  /\ proc' = [proc EXCEPT ![c].pc = "rename"]
  /\ UNCHANGED <<engineVars, predictVars, workflowVars, fcall, diskVars, netVars>>

\* where a call goes once its writeJSON has returned
AfterWrite(c) ==
  IF proc[c].kind = "transaction" /\ proc[c].backupPath THEN "unlinkBackup"
  ELSE "returned"

\* writeJSON line 76: fs.rename(tempPath, fullPath), ENOENT without a .tmp
RenameTemp(c) ==
  /\ proc[c].pc = "rename"
  /\ IF store.tmp.present
     THEN /\ store' = [store EXCEPT !.target = store.tmp, !.tmp = AbsentFile]
          /\ proc' = [proc EXCEPT ![c].pc = AfterWrite(c)]
     ELSE /\ proc' = [proc EXCEPT ![c].pc = "catch"]
          /\ UNCHANGED store
  /\ UNCHANGED <<engineVars, predictVars, workflowVars, fcall, diskVars, netVars>>

\* writeJSON: ensureDir, fs.writeFile or fs.rename rejects
WriteFails(c) ==
  /\ proc[c].pc \in {"writeFile", "rename"}
  /\ proc' = [proc EXCEPT ![c].pc = "catch"]
  /\ UNCHANGED <<store, engineVars, predictVars, workflowVars, fcall, diskVars, netVars>>

\* writeJSON lines 80-91: unlink the .tmp, then throw
WriteCatch(c) ==
  /\ proc[c].pc = "catch"
  /\ store' = [store EXCEPT !.tmp = AbsentFile]
  /\ proc' = [proc EXCEPT ![c].pc = IF proc[c].kind = "transaction"
                                    THEN "rollback" ELSE "thrown"]
  /\ UNCHANGED <<engineVars, predictVars, workflowVars, fcall, diskVars, netVars>>

updateJSON(c) ==
  \/ UpdateRead(c)
  \/ Transform(c)
  \/ TransformThrows(c)
  \/ WriteTemp(c)
  \/ RenameTemp(c)
  \/ WriteFails(c)
  \/ WriteCatch(c)

NextUpdate == \E c \in Callers : updateJSON(c)

SpecUpdate == InitStore /\ [][NextUpdate]_vars

\* C22: when updateJSON calls on one file overlap and all of them return,
\* the file holds the result of all their transforms applied one after the
\* other in some order: every caller's transform is in it exactly once.
C22_NoLostUpdate ==
  (\A c \in Callers : proc[c].pc = "returned")
    => /\ store.target.present
       /\ Len(store.target.data) = NumWriters
       /\ {store.target.data[i] : i \in DOMAIN store.target.data} = Callers

\* transaction line 193, backupFile: fs.copyFile(fullPath, backupPath);
\* null on ENOENT
BackupFile(c) ==
  /\ proc[c].pc = "idle"
  /\ IF store.target.present
     THEN /\ store' = [store EXCEPT !.backup = store.target]
          /\ proc' = [proc EXCEPT ![c].pc = "read", ![c].kind = "transaction",
                                  ![c].backupPath = TRUE,
                                  ![c].before = store.target]
     ELSE /\ proc' = [proc EXCEPT ![c].pc = "read", ![c].kind = "transaction",
                                  ![c].before = store.target]
          /\ UNCHANGED store
  /\ UNCHANGED <<engineVars, predictVars, workflowVars, fcall, diskVars, netVars>>

\* backupFile rethrows an error other than ENOENT; backupPath is still null
BackupFails(c) ==
  /\ proc[c].pc = "idle"
  /\ proc' = [proc EXCEPT ![c].pc = "rollback", ![c].kind = "transaction",
                          ![c].before = store.target]
  /\ UNCHANGED <<store, engineVars, predictVars, workflowVars, fcall, diskVars, netVars>>

\* transaction line 196: await this.readJSON(filePath) || {}
TransactionRead(c) ==
  /\ proc[c].pc = "read"
  /\ proc' = ReadExisting(c, "transaction")
  /\ UNCHANGED <<store, engineVars, predictVars, workflowVars, fcall, diskVars, netVars>>

\* transaction lines 205-209: fs.unlink(backupPath), then return modified;
\* the unlink rejects with ENOENT when the .backup is gone
UnlinkBackup(c) ==
  /\ proc[c].pc = "unlinkBackup"
  /\ IF store.backup.present
     THEN /\ store' = [store EXCEPT !.backup = AbsentFile]
          /\ proc' = [proc EXCEPT ![c].pc = "returned"]
     ELSE /\ proc' = [proc EXCEPT ![c].pc = "rollback"]
          /\ UNCHANGED store
  /\ UNCHANGED <<engineVars, predictVars, workflowVars, fcall, diskVars, netVars>>

\* fs.unlink(backupPath) rejects for another reason
UnlinkFails(c) ==
  /\ proc[c].pc = "unlinkBackup"
  /\ proc' = [proc EXCEPT ![c].pc = "rollback"]
  /\ UNCHANGED <<store, engineVars, predictVars, workflowVars, fcall, diskVars, netVars>>

\* restoreBackup: fs.copyFile(backupPath, fullPath); an error is logged and
\* false returned
RestoreBackup(ok) ==
  IF ok /\ store.backup.present THEN [store EXCEPT !.target = store.backup]
  ELSE store

\* transaction lines 210-219: restore the backup if one was made, then throw
Rollback(c) ==
  /\ proc[c].pc = "rollback"
  /\ \E ok \in BOOLEAN :
       store' = IF proc[c].backupPath THEN RestoreBackup(ok) ELSE store
  /\ proc' = [proc EXCEPT ![c].pc = "thrown"]
  /\ UNCHANGED <<engineVars, predictVars, workflowVars, fcall, diskVars, netVars>>

transaction(c) ==
  \/ BackupFile(c)
  \/ BackupFails(c)
  \/ TransactionRead(c)
  \/ Transform(c)
  \/ TransformThrows(c)
  \/ WriteTemp(c)
  \/ RenameTemp(c)
  \/ WriteFails(c)
  \/ WriteCatch(c)
  \/ UnlinkBackup(c)
  \/ UnlinkFails(c)
  \/ Rollback(c)

NextTransaction == \E c \in Callers : transaction(c)

SpecTransaction == InitStore /\ [][NextTransaction]_vars

\* no call but c has started: c runs alone from beginning to end
RunsAlone(c) == \A d \in Callers \ {c} : proc[d].pc = "idle"

\* C28: when a transaction that runs alone throws, the file holds what it
\* held before the call (or is still absent); when it returns, the file
\* holds modifyFn's result and no .backup of it remains.
C28_RollbackOrCommit ==
  [][\A c \in Callers :
       RunsAlone(c)
         => /\ (proc[c].pc # "thrown" /\ proc'[c].pc = "thrown")
                 => store'.target = proc[c].before
            /\ (proc[c].pc # "returned" /\ proc'[c].pc = "returned")
                 => /\ store'.target = FileWith(proc[c].updated)
                    /\ ~store'.backup.present]_vars

(***************************************************************************)
(* Claims about the pure functions.                                        *)
(***************************************************************************)
\* C11: the Elo predictGame adds exactly 25 Elo points to the home rating:
\* for two teams both rated 1500 the home win probability is above 0.5, the
\* home team is the predicted winner, the Elo difference it compares is 25
\* and the confidence is low.
C11_HomeFieldIs25Elo ==
  (/\ fcall.op = "predictGame"
   /\ fcall.homeTeam \in NFL_TEAMS /\ fcall.awayTeam \in NFL_TEAMS
   /\ fcall.ratings[fcall.homeTeam] = ELO_BASE_RATING * Unit
   /\ fcall.ratings[fcall.awayTeam] = ELO_BASE_RATING * Unit)
    => /\ ~fcall.result.isNull
       /\ 2 * fcall.result.homeWinProbability > ProbScale
       /\ fcall.result.predictedWinner = fcall.homeTeam
       /\ fcall.result.eloDifference = 25 * Unit
       /\ fcall.result.confidence = "low"

\* homeRating - awayRating of a table
RatingGap(ratings, homeTeam, awayTeam) == ratings[homeTeam] - ratings[awayTeam]

\* C12: for a fixed home and away team, a table in which the absolute
\* difference of their two ratings is larger (the same team being the
\* higher-rated one) never gets a lower confidence tier from predictGame.
C12_ConfidenceMonotonic ==
  (/\ fcall.op = "predictGame"
   /\ ~fcall.result.isNull /\ ~fcall.otherResult.isNull
   /\ LET gap == RatingGap(fcall.ratings, fcall.homeTeam, fcall.awayTeam)
           otherGap == RatingGap(fcall.otherRatings, fcall.homeTeam, fcall.awayTeam)
       IN  /\ Abs(otherGap) > Abs(gap)
           /\ (gap > 0 => otherGap > 0)
           /\ (gap < 0 => otherGap < 0))
    => ConfidenceLevel(fcall.otherResult.confidence)
         >= ConfidenceLevel(fcall.result.confidence)

\* C14: initializeRatings(prior) gives every registry team with a rating p in
\* the prior table (p anywhere in 0..3000) the rating 1500 + (p - 1500)/3: a
\* prior of 1500 stays 1500, any other prior ends strictly closer to 1500
\* without reaching it.
C14_RegressionToBase ==
  (fcall.op = "initializeRatings" /\ fcall.hasPrior)
    => \A team \in NFL_TEAMS \cap DOMAIN fcall.previousSeasonRatings :
         LET base == ELO_BASE_RATING * Unit
             prev == fcall.previousSeasonRatings[team]
             new == fcall.result[team]
         IN  /\ 3 * (new - base) = prev - base
             /\ (prev = base => new = base)
             /\ (prev # base => /\ new # base
                                /\ Abs(new - base) < Abs(prev - base))

\* C15: checkPrediction marks a prediction correct exactly when its
\* predictedWinner is the team that scored strictly more points in the actual
\* result; on equal actual scores no prediction is marked correct.
C15_CorrectIffStrictWinner ==
  fcall.op = "checkPrediction"
    => LET actual == fcall.actualResult
           winner == fcall.prediction.predictedWinner
       IN  fcall.result.correct
             <=> \/ (actual.homeScore > actual.awayScore /\ winner = actual.homeTeam)
                 \/ (actual.awayScore > actual.homeScore /\ winner = actual.awayTeam)

\* |predicted home - actual home| + |predicted away - actual away| of a result
ScoreErrorOf(result) ==
  LET pred == ParseScore(result.predictedScore)
      actual == ParseScore(result.actualScore)
  IN  Abs(pred[1] - actual[1]) + Abs(pred[2] - actual[2])

RECURSIVE SumScoreErrors(_)
SumScoreErrors(results) ==
  IF results = <<>> THEN 0
  ELSE ScoreErrorOf(Head(results)) + SumScoreErrors(Tail(results))

\* the number of tenths a one-decimal string stands for
FixedTenths(s) ==
  10 * DigitsVal(SubSeq(s, 1, Len(s) - 2), 0) + DigitVal(s[Len(s)])

\* C16: in every report of calculateAccuracy, from check-results or from the
\* backtest, avgScoreError is the sum over the reported games of
\* |predicted home - actual home| + |predicted away - actual away| divided by
\* the number of games (to the one decimal it is printed with), and 0 for
\* no games.
C16_AvgScoreErrorIsMean ==
  fcall.op = "calculateAccuracy"
    => LET n == Len(fcall.results)
           tenths == FixedTenths(fcall.report.avgScoreError)
       IN  IF n = 0 THEN tenths = 0
           ELSE 2 * Abs(10 * SumScoreErrors(fcall.results) - n * tenths) <= n

\* a game between two registry teams that has scores
BetweenRegistryTeams(game) ==
  /\ game.hasScores
  /\ \A i \in DOMAIN game.teams : game.teams[i] \in NFL_TEAMS

\* the games of the list in which team scored strictly more (less) than the
\* other team
StrictWins(gameStats, team) ==
  {i \in DOMAIN gameStats :
     /\ team \in DOMAIN gameStats[i].scores
     /\ \A u \in DOMAIN gameStats[i].scores \ {team} :
          gameStats[i].scores[team] > gameStats[i].scores[u]}

StrictLosses(gameStats, team) ==
  {i \in DOMAIN gameStats :
     /\ team \in DOMAIN gameStats[i].scores
     /\ \A u \in DOMAIN gameStats[i].scores \ {team} :
          gameStats[i].scores[team] < gameStats[i].scores[u]}

\* C18: after aggregateStats over any list of game records every team has
\* wins + losses <= games; over games between two registry teams, a game
\* with equal scores adds to nobody's wins or losses and a game with unequal
\* scores adds one win to the higher scorer and one loss to the lower scorer.
C18_WinsAndLosses ==
  fcall.op = "aggregateStats"
    => LET agg == fcall.result.teamAggregates
       IN  /\ \A team \in NFL_TEAMS :
                agg[team].wins + agg[team].losses <= agg[team].games
           /\ (\A i \in DOMAIN fcall.gameStats :
                  BetweenRegistryTeams(fcall.gameStats[i]))
                => \A team \in NFL_TEAMS :
                     /\ agg[team].wins
                          = Cardinality(StrictWins(fcall.gameStats, team))
                     /\ agg[team].losses
                          = Cardinality(StrictLosses(fcall.gameStats, team))

\* a team that has won one game and tied another, both against registry teams
C18_Witness ==
  /\ fcall.op = "aggregateStats"
  /\ \A i \in DOMAIN fcall.gameStats : BetweenRegistryTeams(fcall.gameStats[i])
  /\ \E team \in NFL_TEAMS :
       /\ fcall.result.teamAggregates[team].games = 2
       /\ fcall.result.teamAggregates[team].wins = 1
       /\ fcall.result.teamAggregates[team].losses = 0

\* C19: for every list of game records, every permutation of it gives the
\* same per-team aggregates, the same rankings and the same league averages.
C19_OrderDoesNotMatter ==
  fcall.op = "aggregateStats" => fcall.ofPermutations = {fcall.result}

\* two different games of one team, so that the list has two orders
C19_Witness ==
  /\ fcall.op = "aggregateStats"
  /\ Len(fcall.gameStats) = 2
  /\ fcall.gameStats[1] # fcall.gameStats[2]
  /\ \E team \in NFL_TEAMS : fcall.result.teamAggregates[team].games = 2
  /\ fcall.result.rankings.offensive # fcall.result.rankings.defensive

\* C20: each of the four rankings gives the ranks 1..N, each once, to exactly
\* the N teams that have games > 0; a team without a game has no rank.
C20_RanksArePermutation ==
  fcall.op = "aggregateStats"
    => LET agg == fcall.result.teamAggregates
           played == {team \in DOMAIN agg : agg[team].games > 0}
           IsRanking(r) ==
             /\ DOMAIN r = played
             /\ {r[team] : team \in played} = 1 .. Cardinality(played)
       IN  /\ IsRanking(fcall.result.rankings.offensive)
           /\ IsRanking(fcall.result.rankings.defensive)
           /\ IsRanking(fcall.result.rankings.rushOffense)
           /\ IsRanking(fcall.result.rankings.passDefense)

\* two teams are ranked, a third has not played
C20_Witness ==
  /\ fcall.op = "aggregateStats"
  /\ \E team \in NFL_TEAMS : fcall.result.teamAggregates[team].games = 0
  /\ Cardinality(DOMAIN fcall.result.rankings.offensive) >= 2
  /\ Cardinality(DOMAIN fcall.result.rankings.offensive) < NumTeams

\* the passing yards the other team of game i gained against team (0 when
\* team did not play in it)
YardsAllowedIn(game, team) ==
  IF team \notin DOMAIN game.stats THEN 0
  ELSE LET opponent == FindOpponent(game.teams, team)
       IN  IF opponent = NoOpponent THEN 0 ELSE game.stats[opponent].passingYards

\* the passing yards allowed by team over a list of games
RECURSIVE PassingYardsAllowed(_, _)
PassingYardsAllowed(gameStats, team) ==
  IF gameStats = <<>> THEN 0
  ELSE YardsAllowedIn(Head(gameStats), team)
         + PassingYardsAllowed(Tail(gameStats), team)

\* C21: the pass-defense ranking orders the teams ascending by passing yards
\* allowed per game (the yards their opponents passed for): a team ranked
\* ahead of another has allowed no more yards per game.
C21_PassDefenseByYardsAllowed ==
  fcall.op = "aggregateStats"
    => LET agg == fcall.result.teamAggregates
           rank == fcall.result.rankings.passDefense
       IN  \A t \in DOMAIN rank, u \in DOMAIN rank :
             rank[t] < rank[u]
               => PassingYardsAllowed(fcall.gameStats, t) * agg[u].games
                    <= PassingYardsAllowed(fcall.gameStats, u) * agg[t].games

(***************************************************************************)
(* Claims about the workflows.                                             *)
(***************************************************************************)
\* C2: across any sequence of generate-predictions and check-results runs
\* (runs on unchanged cached upcoming-game data included), the result of each
\* completed game is applied to the persisted Elo table at most once.
C2_ResultAppliedOnce ==
  \A g \in GameIds : eloApplied[g] <= 1

\* C3: in every reachable state, the Elo table persisted to
\* historical-elo.json and the table a generate-predictions run predicts from
\* have exactly one entry for each registry team.
C3_EveryTeamRated ==
  /\ eloFile.present => DOMAIN eloFile.ratings = NFL_TEAMS
  /\ contextElo.used => DOMAIN contextElo.ratings = NFL_TEAMS

\* the fields checkPrediction sets
CheckFields(p) ==
  <<p.id, p.checked, p.correct, p.actualWinner, p.actualScore, p.scoreError>>

\* C4: across check-results runs, a stored record whose checked flag is true
\* is never passed to checkPrediction again, and no step of a check-results
\* run changes its checked, correct, actualWinner, actualScore or scoreError.
C4_CheckedNeverRechecked ==
  /\ [](~rechecked)
  /\ [][(crPc # "idle" \/ crPc' # "idle")
         => \A i \in DOMAIN predictionsFile.predictions :
              predictionsFile.predictions[i].checked
                => /\ i \in DOMAIN predictionsFile'.predictions
                   /\ CheckFields(predictionsFile'.predictions[i])
                        = CheckFields(predictionsFile.predictions[i])]_vars

\* a later check-results run has rewritten predictions.json while it held a
\* record checked by an earlier run
C4_Witness ==
  /\ crPc = "writeResults"
  /\ checkedPredictions # <<>>
  /\ \E i \in DOMAIN predictionsFile.predictions :
       /\ predictionsFile.predictions[i].checked
       /\ predictionsFile.predictions[i].id \notin Ids(checkedPredictions)

\* predictions.json holds a record of game g with checked: true
CheckedInPredictions(g) ==
  /\ predictionsFile.present
  /\ \E i \in DOMAIN predictionsFile.predictions :
       /\ predictionsFile.predictions[i].id = g
       /\ predictionsFile.predictions[i].checked

\* results.json has a record of game g and a run has applied g to the table
RecordedAndApplied(g) ==
  /\ resultsFile.present
  /\ g \in Ids(resultsFile.results)
  /\ eloApplied[g] >= 1

\* C23: every prediction that check-results marks checked in
\* predictions.json is eventually also recorded in results.json and applied
\* to the persisted Elo table, even when a run fails between its three
\* writes and the workflow is run again later.
C23_CheckedIsRecorded ==
  \A g \in GameIds : CheckedInPredictions(g) ~> RecordedAndApplied(g)

\* predictions.json holds an unchecked record of game g, g is final and at
\* least RESULT_CHECK_HOURS old
FinishedUnchecked(g) ==
  /\ predictionsFile.present
  /\ espn[g].state = "post"
  /\ \E i \in DOMAIN predictionsFile.predictions :
       /\ predictionsFile.predictions[i].id = g
       /\ ~predictionsFile.predictions[i].checked
       /\ now - predictionsFile.predictions[i].gameDate >= RESULT_CHECK_HOURS

\* C24: when check-results is invoked repeatedly and its summary requests
\* succeed in the end, every stored unchecked prediction whose game is final
\* and at least 4 hours old is eventually marked checked, also when the
\* invocations share one process and its response cache.
C24_FinishedIsChecked ==
  \A g \in GameIds : FinishedUnchecked(g) ~> CheckedInPredictions(g)

\* the position in appliedOrder is the first one of its game
FirstApplication(i) ==
  \A k \in 1 .. (i - 1) : appliedOrder[k] # appliedOrder[i]

\* C5: the game results check-results applies to the Elo table are applied
\* in chronological order of game date (a game's first application is
\* looked at, so that a result applied twice does not count here).
C5_AppliedInDateOrder ==
  \A i, j \in DOMAIN appliedOrder :
    (i < j /\ FirstApplication(i) /\ FirstApplication(j))
      => ScheduleGame(appliedOrder[i]).date <= ScheduleGame(appliedOrder[j]).date

(***************************************************************************)
(* Claims about the combiner.                                              *)
(***************************************************************************)
\* the entries of a list for which predict yields a prediction, in order
RECURSIVE Succeeding(_, _)
Succeeding(games, context) ==
  IF games = <<>> THEN <<>>
  ELSE LET r == predict(Head(games), context)
           rest == Succeeding(Tail(games), context)
       IN  IF r.kind = "prediction" THEN <<Head(games).id>> \o rest ELSE rest

\* C6: predictGames never aborts: for every list, entries for which predict
\* fails or throws included (null entries too), it returns the predictions of
\* exactly the entries that succeed, in input order.
C6_PredictGamesNeverAborts ==
  pcall.op = "predictGames"
    => /\ ~pcall.aborted
       /\ [i \in 1 .. Len(pcall.predictions) |-> pcall.predictions[i].id]
            = Succeeding(pcall.games, ctx)

\* C7: predict returns null, and emits no prediction record, whenever the
\* context has no season aggregate for the home team, none for the away team,
\* or no league average (the game and the rest of the context being well
\* formed: a game object, a teamStats object, a rankings object).
C7_MissingInputGivesNull ==
  (pcall.op = "predict" /\ ~pcall.game.isNull /\ ctx.hasTeamStats
     /\ ~ctx.rankings.isUndefined
     /\ (\/ pcall.game.homeTeam \notin DOMAIN ctx.teamStats
         \/ pcall.game.awayTeam \notin DOMAIN ctx.teamStats
         \/ ctx.leagueAverage.isNull))
    => pcall.kind = "null"

\* C9: the final confidence of a prediction record is the lower of the two
\* sub-model confidences under high > medium > low.
C9_ConfidenceIsStricter ==
  (pcall.op = "predict" /\ pcall.kind = "prediction")
    => LET e == ConfidenceLevel(pcall.rec.eloConfidence)
           f == ConfidenceLevel(pcall.rec.effConfidence)
           c == ConfidenceLevel(pcall.rec.confidence)
       IN  /\ c <= e /\ c <= f
           /\ (c = e \/ c = f)
           /\ pcall.rec.confidence \in {"high", "medium", "low"}

\* the Elo sub-model is surer than the efficiency sub-model
C9_Witness ==
  /\ pcall.op = "predict" /\ pcall.kind = "prediction"
  /\ pcall.rec.eloConfidence = "high"
  /\ pcall.rec.effConfidence = "medium"
  /\ pcall.rec.confidence = "medium"

\* C10: predictedWinner is the home team exactly when the combined home score
\* is strictly greater than the combined away score, the away team when it is
\* strictly lower, and one definite team (the away team) when they are equal.
C10_WinnerHasHigherScore ==
  (pcall.op = "predict" /\ pcall.kind = "prediction")
    => LET sc == ParseScore(pcall.rec.predictedScore)
           home == pcall.rec.homeTeam
           away == pcall.rec.awayTeam
       IN  /\ (pcall.rec.predictedWinner = home) <=> JGt(sc[1], sc[2])
           /\ JGt(sc[1], sc[2]) <=> JGt(pcall.rec.spread, 0)
           /\ JGt(sc[2], sc[1]) => pcall.rec.predictedWinner = away
           /\ sc[1] = sc[2] => pcall.rec.predictedWinner = away

\* a prediction whose combined scores are equal
C10_Witness ==
  /\ pcall.op = "predict" /\ pcall.kind = "prediction"
  /\ LET sc == ParseScore(pcall.rec.predictedScore)
     IN  sc[1] = sc[2] /\ ~IsNaN(sc[1])
  /\ pcall.rec.predictedWinner = pcall.rec.awayTeam

\* C25: whenever the Elo sub-model and the efficiency sub-model name the same
\* team as predicted winner, predict's combined record names that team as
\* predictedWinner.
C25_AgreedWinnerIsKept ==
  (fcall.op = "predict" /\ fcall.kind = "prediction"
     /\ fcall.rec.eloWinner = fcall.rec.effWinner)
    => fcall.rec.predictedWinner = fcall.rec.eloWinner

\* C26: a generate-predictions run that saves leaves predictions.json with at
\* most one record per game id: every new prediction, plus exactly the
\* unchecked old records of games that were not predicted again; no checked
\* old record is carried over, and summary.total = summary.new +
\* summary.carried.
C26_SavedIsNewPlusUncheckedOld ==
  [][generateRuns' # generateRuns =>
       LET old == IF predictionsFile.present
                  THEN predictionsFile.predictions ELSE NoGames
           new == predictGames(cachedData.upcomingGames, GenerateContext).predictions
           saved == predictionsFile'.predictions
           summary == predictionsFile'.summary
           carried == {i \in DOMAIN old :
                         ~old[i].checked /\ old[i].id \notin Ids(new)}
       IN  /\ \A i, j \in DOMAIN saved : saved[i].id = saved[j].id => i = j
           /\ \A i \in DOMAIN new : \E j \in DOMAIN saved : saved[j] = new[i]
           /\ \A i \in carried : \E j \in DOMAIN saved : saved[j] = old[i]
           /\ \A j \in DOMAIN saved :
                \/ \E i \in DOMAIN new : new[i] = saved[j]
                \/ \E i \in carried : old[i] = saved[j]
           /\ \A i \in DOMAIN old :
                old[i].checked => \A j \in DOMAIN saved : saved[j] # old[i]
           /\ summary.total = Len(saved)
           /\ summary.new = Len(new)
           /\ summary.carried = Cardinality(carried)
           /\ summary.total = summary.new + summary.carried]_vars

\* a second run has saved new predictions while a record that check-results
\* had marked checked was in the file: it is in results.json and no longer
\* in predictions.json
C26_Witness ==
  /\ generateRuns = 2
  /\ predictionsFile.summary.new > 0
  /\ resultsFile.present
  /\ \E i \in DOMAIN resultsFile.results :
       resultsFile.results[i].id \notin Ids(predictionsFile.predictions)

\* C27: a check-results run marks a stored prediction checked only if it was
\* unchecked, its game date is at least RESULT_CHECK_HOURS hours in the past
\* and the fetched status of the game is 'post'; every other record of
\* predictions.json is left as it was by every step of the run.
C27_OnlyDueFinalGamesAreMarked ==
  [][(crPc # "idle" \/ crPc' # "idle") =>
       LET old == predictionsFile.predictions
           new == predictionsFile'.predictions
       IN  /\ predictionsFile'.present = predictionsFile.present
           /\ DOMAIN new = DOMAIN old
           /\ \A i \in DOMAIN old :
                \/ new[i] = old[i]
                \/ /\ ~old[i].checked
                   /\ now - old[i].gameDate >= RESULT_CHECK_HOURS
                   /\ espn[old[i].id].state = "post"
                   /\ new[i].checked
                   /\ new[i].id = old[i].id]_vars

\* the write of a run has marked one record and left an unchecked one alone
C27_Witness ==
  /\ crPc = "writeResults"
  /\ \E i, j \in DOMAIN predictionsFile.predictions :
       /\ predictionsFile.predictions[i].checked
       /\ predictionsFile.predictions[i].id \in Ids(checkedPredictions)
       /\ ~predictionsFile.predictions[j].checked


(***************************************************************************)
(* API client (src/unnamed/part_003): one call of fetchWithRetry.  The     *)
(* call awaits three things in turn: fetch (under the abort timer of       *)
(* API_CONFIG.TIMEOUT), response.json() (after clearTimeout, so under no   *)
(* timer) and, in the catch block, the retry delay.  The recursion         *)
(* fetchWithRetry(url, options, retryCount + 1) is the same call going     *)
(* round again with a higher retryCount.  errors is the list of errors     *)
(* caught so far, waited the delays slept so far.                          *)
(***************************************************************************)
MAX_RETRIES == 4
RETRY_DELAYS == <<2000, 4000, 8000, 16000>>

\* what an attempt can fail of: fetch rejects, the timer aborts it, the
\* response is not ok, the body does not parse
ErrorKinds == {"network", "abort", "http", "json"}

NotCalled == [pc |-> "idle", retryCount |-> 0, attempts |-> 0,
              errors |-> <<>>, waited |-> <<>>, delay |-> 0, thrown |-> <<>>]

InitFetch ==
  /\ req = NotCalled
  /\ requestCache = <<>> /\ pf = <<>>
  /\ fcall = NoFCall
  /\ EngineIdle /\ PredictIdle /\ WorkflowIdle /\ DiskIdle /\ TxIdle

\* fetchWithRetry(url): the timer is set and fetch is issued
FetchCall ==
  /\ req.pc = "idle"
  /\ req' = [req EXCEPT !.pc = "fetching", !.attempts = 1]
  /\ UNCHANGED <<engineVars, predictVars, workflowVars, fcall, diskVars, txVars,
                 requestCache, pf>>

\* the catch block: sleep and go round again, or log and rethrow
Caught(r, kind) ==
  LET error == [attempt |-> r.attempts, kind |-> kind]
      caught == [r EXCEPT !.errors = Append(r.errors, error)]
  IN  IF r.retryCount < MAX_RETRIES
      THEN [caught EXCEPT !.pc = "delay", !.delay = RETRY_DELAYS[r.retryCount + 1]]
      ELSE [caught EXCEPT !.pc = "thrown", !.thrown = error]

\* await fetch settles with a response that is ok: clearTimeout, then
\* response.json() is awaited
FetchResolvesOk ==
  /\ req.pc = "fetching"
  /\ req' = [req EXCEPT !.pc = "body"]
  /\ UNCHANGED <<engineVars, predictVars, workflowVars, fcall, diskVars, txVars,
                 requestCache, pf>>

\* await fetch rejects (network error, or controller.abort() after TIMEOUT),
\* or the response is not ok and the try block throws
FetchFails ==
  /\ req.pc = "fetching"
  /\ \E kind \in {"network", "abort", "http"} : req' = Caught(req, kind)
  /\ UNCHANGED <<engineVars, predictVars, workflowVars, fcall, diskVars, txVars,
                 requestCache, pf>>

FetchSettles == FetchResolvesOk \/ FetchFails

\* response.json() resolves: the call returns the data
BodyParsed ==
  /\ req.pc = "body"
  /\ req' = [req EXCEPT !.pc = "returned"]
  /\ UNCHANGED <<engineVars, predictVars, workflowVars, fcall, diskVars, txVars,
                 requestCache, pf>>

\* response.json() rejects: the body breaks off or is no JSON
BodyFails ==
  /\ req.pc = "body"
  /\ req' = Caught(req, "json")
  /\ UNCHANGED <<engineVars, predictVars, workflowVars, fcall, diskVars, txVars,
                 requestCache, pf>>

\* the retry delay is over: return this.fetchWithRetry(url, options, retryCount + 1)
DelayOver ==
  /\ req.pc = "delay"
  /\ req' = [req EXCEPT !.pc = "fetching", !.retryCount = req.retryCount + 1,
                        !.attempts = req.attempts + 1,
                        !.waited = Append(req.waited, req.delay), !.delay = 0]
  /\ UNCHANGED <<engineVars, predictVars, workflowVars, fcall, diskVars, txVars,
                 requestCache, pf>>

fetchWithRetry ==
  FetchCall \/ FetchResolvesOk \/ FetchFails \/ BodyParsed \/ BodyFails \/ DelayOver

NextFetch == fetchWithRetry

\* the call is made; the abort timer settles every await of fetch and the
\* timer of the delay fires.  No timer stands behind response.json().
FairFetch ==
  /\ WF_req(FetchCall)
  /\ WF_req(FetchSettles)
  /\ WF_req(DelayOver)

SpecFetch == InitFetch /\ [][NextFetch]_vars /\ FairFetch

\* what the call does on its way: at most 1 + MAX_RETRIES attempts, one
\* error caught per failed attempt, the delays slept are RETRY_DELAYS in
\* order, a return follows the first success, the throw follows the fifth
\* failure and carries its error
FetchWithinRetries ==
  req.pc # "idle" =>
    /\ req.attempts <= 1 + MAX_RETRIES
    /\ req.waited = SubSeq(RETRY_DELAYS, 1, req.attempts - 1)
    /\ \A i \in DOMAIN req.errors : req.errors[i].attempt = i
    /\ req.pc \in {"fetching", "body", "returned"} => Len(req.errors) = req.attempts - 1
    /\ req.pc = "thrown" =>
         /\ req.attempts = 1 + MAX_RETRIES
         /\ Len(req.errors) = req.attempts
         /\ req.thrown = req.errors[req.attempts]

\* C29: a fetchWithRetry call always terminates, after at most 5 attempts: it
\* returns the first successful response without a further attempt, waits
\* 2000, 4000, 8000 and 16000 ms before retries 1 to 4 in that order, and
\* throws the last error after the fifth failure.
C29_FetchTerminates ==
  /\ []FetchWithinRetries
  /\ [][req.pc \in {"returned", "thrown"} => req' = req]_vars
  /\ (req.pc # "idle") ~> (req.pc \in {"returned", "thrown"})


(***************************************************************************)
(* API client (src/unnamed/part_003): one call of parallelFetch.  Every    *)
(* URL of a batch goes through cachedFetch: a URL found in requestCache is *)
(* answered from it without a request, any other starts a fetchWithRetry,  *)
(* which is in flight until it returns (the response is cached) or throws  *)
(* after its retries (the .catch turns that into null).  batch.map runs    *)
(* synchronously, so the requests of a batch start together.  pf.status    *)
(* is kept by position in urls.                                            *)
(***************************************************************************)
MAX_CONCURRENT == 10

\* the URLs of a call: a short list, a list of distinct URLs, and a list
\* whose last URL is its first again
UrlLists ==
  { [k \in 1 .. 3 |-> k],
    [k \in 1 .. NumUrls |-> k],
    [k \in 1 .. NumUrls |-> IF k = NumUrls THEN 1 ELSE k] }

InitParallel ==
  /\ pf = [pc |-> "idle", urls |-> <<>>, i |-> 0, status |-> <<>>, results |-> <<>>]
  /\ requestCache = <<>> /\ req = <<>>
  /\ fcall = NoFCall
  /\ EngineIdle /\ PredictIdle /\ WorkflowIdle /\ DiskIdle /\ TxIdle

\* urls.slice(i, i + MAX_CONCURRENT), as positions
BatchAt(urls, i) == {k \in DOMAIN urls : i < k /\ k <= i + MAX_CONCURRENT}

\* batch.map(url => this.cachedFetch(url, options).catch(...)) for the batch
\* at i: a cached URL is answered at once, any other request is started
StartBatch(p, i) ==
  [p EXCEPT !.pc = "batch", !.i = i,
            !.status = [k \in DOMAIN p.urls |->
                          IF k \in BatchAt(p.urls, i)
                          THEN IF p.urls[k] \in DOMAIN requestCache
                               THEN "cached" ELSE "inFlight"
                          ELSE p.status[k]]]

\* parallelFetch(urls): the loop is entered and the first batch is mapped
ParallelFetchCall ==
  /\ pf.pc = "idle"
  /\ \E urls \in UrlLists :
       pf' = StartBatch([pf EXCEPT !.urls = urls,
                                   !.status = [k \in DOMAIN urls |-> "waiting"]], 0)
  /\ UNCHANGED <<engineVars, predictVars, workflowVars, fcall, diskVars, txVars,
                 requestCache, req>>

\* a request's fetchWithRetry returns: cachedFetch stores the response
RequestSucceeds ==
  /\ pf.pc = "batch"
  /\ \E k \in DOMAIN pf.urls :
       /\ pf.status[k] = "inFlight"
       /\ pf' = [pf EXCEPT !.status[k] = "ok"]
       /\ requestCache' =
            [u \in DOMAIN requestCache \cup {pf.urls[k]} |-> [url |-> u]]
  /\ UNCHANGED <<engineVars, predictVars, workflowVars, fcall, diskVars, txVars, req>>

\* a request's fetchWithRetry throws after its retries: the result is null
RequestFails ==
  /\ pf.pc = "batch"
  /\ \E k \in DOMAIN pf.urls :
       /\ pf.status[k] = "inFlight"
       /\ pf' = [pf EXCEPT !.status[k] = "null"]
  /\ UNCHANGED <<engineVars, predictVars, workflowVars, fcall, diskVars, txVars,
                 requestCache, req>>

\* mutant: the loop goes on as soon as one promise of the batch has settled
BatchRaced(p) ==
  \E k \in BatchAt(p.urls, p.i) : p.status[k] # "inFlight"

\* await Promise.all(batchPromises) is over
BatchSettled(p) ==
  \A k \in BatchAt(p.urls, p.i) : p.status[k] # "inFlight"

\* results.push(...batchResults); the delay between batches, or the return
BatchDone ==
  /\ pf.pc = "batch"
  /\ BatchSettled(pf)
  /\ pf' = [pf EXCEPT
              !.results = pf.results \o
                 [j \in 1 .. Cardinality(BatchAt(pf.urls, pf.i)) |->
                    IF pf.status[pf.i + j] = "null" THEN [url |-> 0]
                    ELSE [url |-> pf.urls[pf.i + j]]],
              !.pc = IF pf.i + MAX_CONCURRENT < Len(pf.urls)
                     THEN "delay" ELSE "returned"]
  /\ UNCHANGED <<engineVars, predictVars, workflowVars, fcall, diskVars, txVars,
                 requestCache, req>>

\* RATE_LIMIT_DELAY is over: the next batch is mapped
RateDelayOver ==
  /\ pf.pc = "delay"
  /\ pf' = StartBatch(pf, pf.i + MAX_CONCURRENT)
  /\ UNCHANGED <<engineVars, predictVars, workflowVars, fcall, diskVars, txVars,
                 requestCache, req>>

parallelFetch ==
  ParallelFetchCall \/ RequestSucceeds \/ RequestFails \/ BatchDone \/ RateDelayOver

NextParallel == parallelFetch

SpecParallel == InitParallel /\ [][NextParallel]_vars

\* the batch a position belongs to
BatchOf(k) == (k - 1) \div MAX_CONCURRENT

\* C30: during a parallelFetch call at most MAX_CONCURRENT of its requests
\* are in flight at any moment, and no request of a batch has started while
\* a request of an earlier batch is still unsettled.
C30_BatchesOfTen ==
  pf.pc # "idle" =>
    /\ Cardinality({k \in DOMAIN pf.urls : pf.status[k] = "inFlight"})
         <= MAX_CONCURRENT
    /\ \A j, k \in DOMAIN pf.urls :
         (BatchOf(j) < BatchOf(k) /\ pf.status[k] # "waiting")
           => pf.status[j] \in {"cached", "ok", "null"}

\* the second batch is in flight after a first batch of MAX_CONCURRENT
\* requests, of which one succeeded and one ran out of retries
C30_Witness ==
  /\ pf.pc = "batch"
  /\ pf.i = MAX_CONCURRENT
  /\ \E k \in DOMAIN pf.urls : BatchOf(k) = 1 /\ pf.status[k] = "inFlight"
  /\ \E j, k \in 1 .. MAX_CONCURRENT : pf.status[j] = "ok" /\ pf.status[k] = "null"


====
